---- MODULE Spec2Model ----
(***************************************************************************)
(* A model of xbbg's intraday-bar request path: ticker resolution, the    *)
(* bar cache (xbbg/io/cache.py), the trial ledger and the bdib            *)
(* orchestrator (xbbg/blp.py).                                            *)
(*                                                                         *)
(* Strings the code inspects (tickers, prefixes) are sequences of          *)
(* one-character strings, so that startswith / split / replace / slicing   *)
(* are computed as Python computes them.  Timestamps are minutes counted   *)
(* from 00:00 of the requested date.                                       *)
(***************************************************************************)
EXTENDS Integers, Sequences, FiniteSets, TLC

VARIABLES
    bbgRoot,    \* value of the BBG_ROOT environment variable ("" = unset)
    now,        \* wall clock, minutes from 00:00 of the requested date
    ledger,     \* trial ledger: rows of the embedded table, key -> cnt
    files,      \* files on disk: bar cache path -> set of bar timestamps; the
                \* exchange-code cache file -> its ticker -> code mapping
    tickers,    \* the tickers this process works with
    last,       \* the operation that ran last, with what it returned
    hist,       \* per ledger key: the count last written explicitly and the
                \* number of count-plus-one updates since; for a run of
                \* bdib calls, the calls and fetches so far (bookkeeping)
    procs,      \* the concurrent processes: where each is in its operation
    defaultCacheLogged, \* io/cache.py _default_cache_logged: the fallback to
                \* the default cache location has been logged
    infoLogs,   \* number of fallback INFO messages logged so far
    xcon,       \* core/infra/conn.py globals(): port -> registered session
    handles,    \* the sessions whose handle is set (created, not destroyed)
    made,       \* the session objects created so far
    gen         \* the live() generator: its loop counter and what it yielded

vars == <<bbgRoot, now, ledger, files, tickers, last, hist, procs,
          defaultCacheLogged, infoLogs, xcon, handles, made, gen>>

\* the state of the cache-root logging, of the connections, of live()
logVars == <<defaultCacheLogged, infoLogs>>
connVars == <<xcon, handles, made>>

(***************************************************************************)
(* Bounds of the model.                                                    *)
(***************************************************************************)
MaxCnt == 3        \* largest count an explicit update_trials(cnt=...) writes
NumProcs == 2      \* concurrent processes working on the ledger
MaxCycles == 2     \* count-then-update cycles of one process
MaxSessions == 3   \* blpapi.Session objects the process creates
MaxLiveCnt == 3    \* largest max_cnt live() is called with
MaxYield == 5      \* data points a consumer takes from one live() generator
MaxQueue == 2      \* data points waiting in the queue of live()
MaxCalls == 4      \* bdib calls of one run for one key

(***************************************************************************)
(* Strings.                                                                *)
(***************************************************************************)
Str_isin == <<"/","i","s","i","n","/">>
Str_cusip == <<"/","c","u","s","i","p","/">>
Str_sedol == <<"/","s","e","d","o","l","/">>
Str_Govt == <<"G","o","v","t">>
Str_Corp == <<"C","o","r","p">>
Str_Mtge == <<"M","t","g","e">>
Str_Muni == <<"M","u","n","i">>

UpperLetters ==
    {"A","B","C","D","E","F","G","H","I","J","K","L","M",
     "N","O","P","Q","R","S","T","U","V","W","X","Y","Z"}
LowerLetters ==
    {"a","b","c","d","e","f","g","h","i","j","k","l","m",
     "n","o","p","q","r","s","t","u","v","w","x","y","z"}

\* str.startswith
StartsWith(s, p) == Len(s) >= Len(p) /\ SubSeq(s, 1, Len(p)) = p

\* str.replace(pat, rep): every occurrence, left to right
RECURSIVE ReplaceAll(_, _, _)
ReplaceAll(s, pat, rep) ==
    IF Len(s) < Len(pat) \/ Len(pat) = 0 THEN s
    ELSE IF StartsWith(s, pat)
         THEN rep \o ReplaceAll(SubSeq(s, Len(pat) + 1, Len(s)), pat, rep)
         ELSE <<Head(s)>> \o ReplaceAll(Tail(s), pat, rep)

\* str.split(): split on runs of whitespace, no empty tokens
RECURSIVE SplitFrom(_, _, _)
SplitFrom(s, cur, acc) ==
    IF s = <<>> THEN (IF cur = <<>> THEN acc ELSE Append(acc, cur))
    ELSE IF Head(s) = " "
         THEN SplitFrom(Tail(s), <<>>, IF cur = <<>> THEN acc ELSE Append(acc, cur))
         ELSE SplitFrom(Tail(s), Append(cur, Head(s)), acc)

Split(s) == SplitFrom(s, <<>>, <<>>)

\* s[:n]
Prefix(s, n) == SubSeq(s, 1, IF n < Len(s) THEN n ELSE Len(s))

\* str.isalpha(): non-empty and every character a letter
IsAlpha(s) == s # <<>> /\ \A i \in 1..Len(s) : s[i] \in UpperLetters \cup LowerLetters

\* str.upper(), one character
UpperChar(c) ==
    CASE c = "a" -> "A" [] c = "b" -> "B" [] c = "c" -> "C" [] c = "d" -> "D"
      [] c = "e" -> "E" [] c = "f" -> "F" [] c = "g" -> "G" [] c = "h" -> "H"
      [] c = "i" -> "I" [] c = "j" -> "J" [] c = "k" -> "K" [] c = "l" -> "L"
      [] c = "m" -> "M" [] c = "n" -> "N" [] c = "o" -> "O" [] c = "p" -> "P"
      [] c = "q" -> "Q" [] c = "r" -> "R" [] c = "s" -> "S" [] c = "t" -> "T"
      [] c = "u" -> "U" [] c = "v" -> "V" [] c = "w" -> "W" [] c = "x" -> "X"
      [] c = "y" -> "Y" [] c = "z" -> "Z" [] OTHER -> c

Upper(s) == [i \in 1..Len(s) |-> UpperChar(s[i])]

(***************************************************************************)
(* The tickers of the model, by name, and their characters.                *)
(***************************************************************************)
Tickers ==
    {"AAPL US Equity", "/isin/US912810FE39", "US912810FE39 Govt", "ES1 Index",
     "/cusip/12345678", "/sedol/B0WNLY7", "ZZ1 Index", "FOO XX Equity",
     "/isin/GB0031829509", "GB0031829509 Govt"}

Chars(t) ==
    CASE t = "AAPL US Equity" ->
            <<"A","A","P","L"," ","U","S"," ","E","q","u","i","t","y">>
      [] t = "/isin/US912810FE39" ->
            <<"/","i","s","i","n","/","U","S","9","1","2","8","1","0","F","E","3","9">>
      [] t = "US912810FE39 Govt" ->
            <<"U","S","9","1","2","8","1","0","F","E","3","9"," ","G","o","v","t">>
      [] t = "/isin/GB0031829509" ->
            <<"/","i","s","i","n","/","G","B","0","0","3","1","8","2","9","5","0","9">>
      [] t = "GB0031829509 Govt" ->
            <<"G","B","0","0","3","1","8","2","9","5","0","9"," ","G","o","v","t">>
      [] t = "ES1 Index" ->
            <<"E","S","1"," ","I","n","d","e","x">>
      [] t = "/cusip/12345678" ->
            <<"/","c","u","s","i","p","/","1","2","3","4","5","6","7","8">>
      [] t = "/sedol/B0WNLY7" ->
            <<"/","s","e","d","o","l","/","B","0","W","N","L","Y","7">>
      [] t = "ZZ1 Index" ->
            <<"Z","Z","1"," ","I","n","d","e","x">>
      [] t = "FOO XX Equity" ->
            <<"F","O","O"," ","X","X"," ","E","q","u","i","t","y">>
      [] t = "ESH5 Index" ->
            <<"E","S","H","5"," ","I","n","d","e","x">>
      [] OTHER -> <<>>

(***************************************************************************)
(* Exchange data the resolution reads.  const.exch_info, fut_ticker,       *)
(* process.time_range and const.market_timing are collaborators; bdib      *)
(* only consumes their results.                                            *)
(***************************************************************************)
NoSessions == [s \in {} |-> <<0, 0>>]

EmptyInfo ==
    [empty |-> TRUE, tz |-> "", sess |-> NoSessions,
     is_fut |-> FALSE, has_sprd |-> FALSE, tickers0 |-> 0, freq |-> ""]

EquitySessions == ("allday" :> <<240, 1200>>) @@ ("day" :> <<570, 960>>)

\* const.exch_info(ticker): the static per-exchange table; an empty Series
\* when the ticker has no entry.
ExchInfo(t) ==
    CASE t = "AAPL US Equity" ->
            [empty |-> FALSE, tz |-> "America/New_York", sess |-> EquitySessions,
             is_fut |-> FALSE, has_sprd |-> FALSE, tickers0 |-> 0, freq |-> ""]
      [] t \in {"ES1 Index", "ZZ1 Index"} ->
            [empty |-> FALSE, tz |-> "America/New_York", sess |-> EquitySessions,
             is_fut |-> TRUE, has_sprd |-> FALSE, tickers0 |-> 0, freq |-> "Q"]
      [] OTHER -> EmptyInfo

\* fut_ticker(gen_ticker, dt, freq): the dated contract, '' when none maps
FutTicker(t, freq) == IF t = "ES1 Index" THEN "ESH5 Index" ELSE ""

\* a missing timestamp (None)
None == -1

\* SessionWindow(start_time, end_time)
NoWindow == [s |-> None, e |-> None]

\* SessionWindow.is_valid()
IsValid(w) == w.s # None /\ w.e # None

\* the characters of a session expression
SessChars(session) ==
    CASE session = "allday" -> <<"a","l","l","d","a","y">>
      [] session = "day" -> <<"d","a","y">>
      [] session = "am" -> <<"a","m">>
      [] session = "day_open_30" -> <<"d","a","y","_","o","p","e","n","_","3","0">>
      [] session = "day_close_30" -> <<"d","a","y","_","c","l","o","s","e","_","3","0">>
      [] OTHER -> <<>>

\* the simple session name the characters spell
SessName(c) ==
    CASE c = <<"a","l","l","d","a","y">> -> "allday"
      [] c = <<"d","a","y">> -> "day"
      [] c = <<"a","m">> -> "am"
      [] c = <<"o","p","e","n">> -> "open"
      [] c = <<"c","l","o","s","e">> -> "close"
      [] OTHER -> ""

\* str.split('_'): empty tokens are kept
RECURSIVE SplitOn(_, _, _, _)
SplitOn(s, sep, cur, acc) ==
    IF s = <<>> THEN Append(acc, cur)
    ELSE IF Head(s) = sep
         THEN SplitOn(Tail(s), sep, <<>>, Append(acc, cur))
         ELSE SplitOn(Tail(s), sep, Append(cur, Head(s)), acc)

DigitVal(c) ==
    CASE c = "0" -> 0 [] c = "1" -> 1 [] c = "2" -> 2 [] c = "3" -> 3 [] c = "4" -> 4
      [] c = "5" -> 5 [] c = "6" -> 6 [] c = "7" -> 7 [] c = "8" -> 8 [] c = "9" -> 9
      [] OTHER -> None

\* int(s) of a string of decimal digits, None otherwise
RECURSIVE ToInt(_, _)
ToInt(s, acc) ==
    IF s = <<>> THEN acc
    ELSE IF DigitVal(Head(s)) = None THEN None
    ELSE ToInt(Tail(s), 10 * acc + DigitVal(Head(s)))

\* the session expression grammar: name | name_edge_minutes, edge open or
\* close, minutes a positive integer
SessionExpr(session) ==
    LET parts == SplitOn(SessChars(session), "_", <<>>, <<>>)
    IN IF Len(parts) = 3 /\ SessName(parts[2]) \in {"open", "close"}
          /\ parts[3] # <<>> /\ ToInt(parts[3], 0) > 0
       THEN [base |-> SessName(parts[1]), edge |-> SessName(parts[2]),
             minutes |-> ToInt(parts[3], 0)]
       ELSE [base |-> session, edge |-> "", minutes |-> 0]

\* the ends of the window of a session [start, end]: the whole session, its
\* first minutes or its last minutes
EdgeWindow(start, end, edge, minutes) ==
    CASE edge = "open" -> [s |-> start, e |-> start + minutes]
      [] edge = "close" -> [s |-> end - minutes, e |-> end]
      [] OTHER -> [s |-> start, e |-> end]

\* process.time_range(dt, ticker, session, tz): looks the session up by ticker;
\* (None, None) when the exchange defines no such session for the ticker
TimeRange(t, session) ==
    LET ex == ExchInfo(t)
        x == SessionExpr(session)
    IN IF ex.empty \/ x.base \notin DOMAIN ex.sess THEN NoWindow
       ELSE EdgeWindow(ex.sess[x.base][1], ex.sess[x.base][2], x.edge, x.minutes)

\* const.market_timing(ticker, dt, timing='FINISHED'): end of the ticker's session
MarketTiming(t) == ExchInfo(t).sess["allday"][2]

\* a slip: the slice has no upper end
Slice_NoEnd(rows, w) == {b \in rows : w.s = None \/ w.s <= b}

\* DataFrame.loc[start:end] on a time index: both ends inclusive, None = open
Slice(rows, w) ==
    {b \in rows : (w.s = None \/ w.s <= b) /\ (w.e = None \/ b <= w.e)}

(***************************************************************************)
(* blp.py: fixed-income detection and default exchange info.               *)
(***************************************************************************)
BondSuffixes == {Str_Govt, Str_Corp, Str_Mtge, Str_Muni}

\* a slip: the first token must be exactly a 2-letter country code
FixedIncomePattern_ExactTwo(t) ==
    LET c == Chars(t)
        t_info == Split(c)
    IN \/ StartsWith(c, Str_isin)
       \/ StartsWith(c, Str_cusip)
       \/ StartsWith(c, Str_sedol)
       \/ /\ Len(t_info) > 0
          /\ t_info[Len(t_info)] \in BondSuffixes
          /\ Len(t_info[1]) = 2
          /\ IsAlpha(t_info[1])

\* bdib, blp.py 495-503
FixedIncomePattern(t) ==
    LET c == Chars(t)
        t_info == Split(c)
    IN \/ StartsWith(c, Str_isin)
       \/ StartsWith(c, Str_cusip)
       \/ StartsWith(c, Str_sedol)
       \/ /\ Len(t_info) > 0
          /\ t_info[Len(t_info)] \in BondSuffixes
          /\ t_info[1] # <<>>
          /\ Len(t_info[1]) >= 2
          /\ IsAlpha(Prefix(t_info[1], 2))

\* the same for each ticker of the model, computed once
FixedIncomeTable == [t \in Tickers |-> FixedIncomePattern(t)] @@ <<>>

IsFixedIncome(t) == FixedIncomeTable[t]

NoCountry == <<>>

\* _get_default_exchange_info, blp.py 272-291
CountryCode(t) ==
    LET c == Chars(t)
    IN IF StartsWith(c, Str_isin)
       THEN LET identifier == ReplaceAll(c, Str_isin, <<>>)
            IN IF Len(identifier) >= 2 THEN Upper(Prefix(identifier, 2)) ELSE NoCountry
       ELSE IF StartsWith(c, Str_cusip) \/ StartsWith(c, Str_sedol)
       THEN NoCountry
       ELSE LET t_info == Split(c)
            IN IF t_info # <<>> /\ Len(t_info[1]) = 2 THEN Upper(t_info[1]) ELSE NoCountry

\* country_to_pmc_calendar, blp.py 265-270
PmcCalendar(cc) ==
    CASE cc = <<"U","S">> -> "SIFMA_US"
      [] cc = <<"G","B">> -> "SIFMA_UK"
      [] cc = <<"U","K">> -> "SIFMA_UK"
      [] cc = <<"J","P">> -> "SIFMA_JP"
      [] OTHER -> ""

\* the time zone of a pandas-market-calendars bond calendar
PmcTz(cal) ==
    CASE cal = "SIFMA_US" -> "America/New_York"
      [] cal = "SIFMA_UK" -> "Europe/London"
      [] cal = "SIFMA_JP" -> "Asia/Tokyo"
      [] OTHER -> ""

\* tz_map, blp.py 351-365
TzMap(cc, default_tz) ==
    CASE cc = <<"U","S">> -> "America/New_York"
      [] cc = <<"G","B">> -> "Europe/London"
      [] cc = <<"U","K">> -> "Europe/London"
      [] cc = <<"J","P">> -> "Asia/Tokyo"
      [] cc = <<"D","E">> -> "Europe/Berlin"
      [] cc = <<"F","R">> -> "Europe/Paris"
      [] cc = <<"I","T">> -> "Europe/Rome"
      [] cc = <<"E","S">> -> "Europe/Madrid"
      [] cc = <<"N","L">> -> "Europe/Amsterdam"
      [] cc = <<"C","H">> -> "Europe/Zurich"
      [] cc = <<"A","U">> -> "Australia/Sydney"
      [] cc = <<"C","A">> -> "America/Toronto"
      [] OTHER -> default_tz

\* What the pandas-market-calendars lookup can do: the package is missing or
\* the lookup fails, the date has no schedule, or a schedule with the regular
\* market hours (and, for "open_ext", pre/post columns as well).
PmcOutcomes == {"unavailable", "holiday", "open", "open_ext"}

FullDay == ("allday" :> <<0, 1439>>) @@ ("day" :> <<0, 1439>>)

DefaultInfo(tz, sess) ==
    [empty |-> FALSE, tz |-> tz, sess |-> sess,
     is_fut |-> FALSE, has_sprd |-> FALSE, tickers0 |-> 0, freq |-> ""]

\* a slip: no check for CUSIP/SEDOL, every unknown country gets the default
GetDefaultExchangeInfo_NoRaise(t, session, pmc) ==
    LET country_code == CountryCode(t)
    IN [exc |-> "",
        info |-> DefaultInfo(TzMap(country_code, "America/New_York"), FullDay)]

\* _get_default_exchange_info, blp.py 254-372.  exc = "" when it returns.
GetDefaultExchangeInfo(t, session, pmc) ==
    LET c == Chars(t)
        country_code == CountryCode(t)
        cal == PmcCalendar(country_code)
        hours == IF pmc = "open_ext" /\ session = "allday"
                 THEN <<420, 1080>> ELSE <<480, 1020>>
    IN IF country_code # NoCountry /\ cal # "" /\ pmc \in {"open", "open_ext"}
       THEN [exc |-> "",
             info |-> DefaultInfo(PmcTz(cal), ("allday" :> hours) @@ ("day" :> hours))]
       ELSE IF country_code = NoCountry
       THEN IF StartsWith(c, Str_cusip) \/ StartsWith(c, Str_sedol)
            THEN [exc |-> "ValueError", info |-> EmptyInfo]
            ELSE [exc |-> "", info |-> DefaultInfo("America/New_York", FullDay)]
       ELSE [exc |-> "",
             info |-> DefaultInfo(TzMap(country_code, "America/New_York"), FullDay)]

\* a slip: an empty contract ticker is not detected
ResolveBdibTicker_NoCheck(t, ex_info) ==
    IF ex_info.is_fut THEN <<FutTicker(t, ex_info.freq), TRUE>> ELSE <<t, TRUE>>

\* _resolve_bdib_ticker, blp.py 237-251: <<q_tckr, success>>
ResolveBdibTicker(t, ex_info) ==
    IF ex_info.is_fut
    THEN LET is_sprd == ex_info.has_sprd /\ (Len(Chars(t)) - 1 # ex_info.tickers0)
         IN IF ~is_sprd
            THEN LET q == FutTicker(t, ex_info.freq)
                 IN IF q = "" THEN <<"", FALSE>> ELSE <<q, TRUE>>
            ELSE <<t, TRUE>>
    ELSE <<t, TRUE>>

(***************************************************************************)
(* io/cache.py: cache root and bar file path.                              *)
(***************************************************************************)
RootUnset == <<>>
RootDir == <<"/","d">>
DefaultCache == <<"/","h","/",".","x","b","b","g">>
Str_TRADE == <<"T","R","A","D","E">>
Str_date == <<"2","0","2","5","-","0","1","-","0","2",".","p","a","r","q">>

\* get_cache_root, io/cache.py 37-79
GetCacheRoot(root) == IF root # RootUnset THEN root ELSE DefaultCache

\* a slip: the fallback message is logged on every call
GetCacheRootLogs_Always(root, logged) == root = RootUnset

\* get_cache_root, io/cache.py 70-77: the call logs the fallback INFO message
GetCacheRootLogs(root, logged) == root = RootUnset /\ ~logged

\* get_cache_root, io/cache.py 48-51, 71-77: _default_cache_logged afterwards
GetCacheRootFlag(root, logged) == logged \/ root = RootUnset

\* what an operation does to the logging state: called = it reaches a call of
\* get_cache_root (directly or through bar_file / ref_file)
GetCacheRootCalled(called) ==
    /\ defaultCacheLogged' = IF called
                             THEN GetCacheRootFlag(bbgRoot, defaultCacheLogged)
                             ELSE defaultCacheLogged
    /\ infoLogs' = IF called /\ GetCacheRootLogs(bbgRoot, defaultCacheLogged)
                   THEN infoLogs + 1 ELSE infoLogs

\* pathlib: path / component; an absolute component replaces the path
PathJoin(p, comp) == IF StartsWith(comp, <<"/">>) THEN comp ELSE p \o <<"/">> \o comp

\* bar_file, io/cache.py 82-100
BarFilePath(root, t) ==
    LET data_path == GetCacheRoot(root)
        info == Split(Chars(t))
        asset == info[Len(info)]
        proper_ticker == ReplaceAll(Chars(t), <<"/">>, <<"_">>)
    IN PathJoin(PathJoin(PathJoin(PathJoin(data_path, asset), proper_ticker),
                         Str_TRADE), Str_date)

Roots == {RootUnset, RootDir}

\* a configured root the process cannot write to or read from
RootDenied == <<"/","r","o">>

AllRoots == Roots \cup {RootDenied}

\* the root directory can be used (permissions, disk space)
Accessible(root) == root # RootDenied

\* bar_file for each root and ticker of the model, computed once
BarFileTable == [x \in AllRoots \X Tickers |-> BarFilePath(x[1], x[2])] @@ <<>>

BarFile(root, t) == BarFileTable[<<root, t>>]

(***************************************************************************)
(* The trial ledger (xbbg.core.utils.trials): one row per key in an        *)
(* embedded table under BBG_ROOT.                                          *)
(***************************************************************************)
\* trials.trail_info: the key of a row; slashes in the ticker are replaced
TrailInfo(func, t) == <<func, ReplaceAll(Chars(t), <<"/">>, <<"_">>)>>

Funcs == {"bdib", "bdh"}

\* the keys of the model's tickers, computed once
TrialKeyTable == [x \in Funcs \X Tickers |-> TrailInfo(x[1], x[2])] @@ <<>>

TrialKey(func, t) == TrialKeyTable[<<func, t>>]

\* trials.num_trials(**trial_kw)
NumTrials(root, led, key) ==
    IF root = RootUnset \/ ~Accessible(root) THEN 0
    ELSE IF key \in DOMAIN led THEN led[key] ELSE 0

\* a slip: the row is only inserted, an existing row is kept
UpdateTrials_InsertOnly(root, led, key, cnt) ==
    IF root = RootUnset THEN led
    ELSE [k \in DOMAIN led \cup {key} |-> IF k \in DOMAIN led THEN led[k] ELSE cnt]

\* a slip: the row is written without looking at the root
UpdateTrials_NoRootCheck(root, led, key, cnt) ==
    [k \in DOMAIN led \cup {key} |-> IF k = key THEN cnt ELSE led[k]]

\* a slip: the count is added to the row's count instead of replacing it
UpdateTrials_Adds(root, led, key, cnt) ==
    IF root = RootUnset THEN led
    ELSE [k \in DOMAIN led \cup {key} |->
             IF k = key THEN (IF key \in DOMAIN led THEN led[key] ELSE 0) + cnt
             ELSE led[k]]

\* a slip: the table is rewritten with the key's row only
UpdateTrials_Truncates(root, led, key, cnt) ==
    IF root = RootUnset THEN led
    ELSE [k \in {key} |-> cnt]

\* trials.update_trials(cnt=..., **trial_kw): one upsert of the key's row
UpdateTrials(root, led, key, cnt) ==
    IF root = RootUnset \/ ~Accessible(root) THEN led
    ELSE [k \in DOMAIN led \cup {key} |-> IF k = key THEN cnt ELSE led[k]]

(***************************************************************************)
(* io/cache.py: save_intraday.                                             *)
(***************************************************************************)
GraceMargin == 60       \* pd.Timedelta('1h'), in minutes
TrialThreshold == 2     \* if num_trials >= 2

\* what a file holds when it does not deserialize: damaged bytes, or the
\* beginning of a payload whose writer has not finished
CorruptPayload == {-2}
PartialPayload == {-3}

\* pd.read_parquet(path) raises
Unreadable(fs, path) ==
    path \in DOMAIN fs /\ fs[path] \in {CorruptPayload, PartialPayload}

WriteFile(fs, path, rows) ==
    [p \in DOMAIN fs \cup {path} |-> IF p = path THEN rows ELSE fs[p]]

Exists(fs, path) == path \in DOMAIN fs

\* a slip: the one-hour margin is not subtracted
SessionIncomplete_NoMargin(end_time, nowv) == end_time > nowv

\* the completeness test of save_intraday, io/cache.py 170-177: TRUE = skip
SessionIncomplete(end_time, nowv) == end_time > nowv - GraceMargin

\* a slip: empty data is not detected
SaveIntraday_NoEmptyCheck(data, t, root, nowv, fs) ==
    LET data_file == BarFile(root, t)
    IN IF data_file = <<>> THEN fs
       ELSE IF ExchInfo(t).empty THEN fs
       ELSE IF SessionIncomplete(MarketTiming(t), nowv) THEN fs
       ELSE IF ~Accessible(root) THEN fs
       ELSE WriteFile(fs, data_file, data)

\* save_intraday, io/cache.py 146-184: the files afterwards
SaveIntraday(data, t, root, nowv, fs) ==
    LET data_file == BarFile(root, t)
    IN IF data_file = <<>> THEN fs
       ELSE IF data = {} THEN fs
       ELSE IF ExchInfo(t).empty THEN fs
       ELSE IF SessionIncomplete(MarketTiming(t), nowv) THEN fs
       ELSE IF ~Accessible(root) THEN fs
       ELSE WriteFile(fs, data_file, data)

\* save_intraday, io/cache.py 183-184: create_folder and to_parquet are not
\* guarded, the error of an unusable root leaves the function
SaveIntradayRaises(data, t, root, nowv) ==
    /\ BarFile(root, t) # <<>>
    /\ data # {}
    /\ ~ExchInfo(t).empty
    /\ ~SessionIncomplete(MarketTiming(t), nowv)
    /\ ~Accessible(root)

\* save_intraday, io/cache.py 159-182: the level of the message it logs
SaveIntradayLog(data, t, root, nowv) ==
    IF BarFile(root, t) = <<>> THEN ""
    ELSE IF data = {} THEN "WARNING"
    ELSE IF ExchInfo(t).empty THEN ""
    ELSE IF SessionIncomplete(MarketTiming(t), nowv) THEN "DEBUG"
    ELSE "INFO"

(***************************************************************************)
(* io/cache.py: BarCacheAdapter.  A payload is the set of its bars'        *)
(* timestamps; add_ticker and the column selection of save only relabel    *)
(* columns.                                                                *)
(***************************************************************************)
NoRows == [some |-> FALSE, rows |-> {}]

\* a slip: the file's rows are returned without the window's slice
BarCacheAdapterLoad_NoSlice(t, w, root, fs) ==
    LET data_file == BarFile(root, t)
    IN IF ~IsValid(w) THEN NoRows
       ELSE IF data_file = <<>> THEN NoRows
       ELSE IF ~Exists(fs, data_file) THEN NoRows
       ELSE IF Unreadable(fs, data_file) THEN NoRows
       ELSE IF fs[data_file] # {} THEN [some |-> TRUE, rows |-> fs[data_file]]
       ELSE NoRows

\* a slip: the window is not validated
BarCacheAdapterLoad_NoValidCheck(t, w, root, fs) ==
    LET data_file == BarFile(root, t)
    IN IF data_file = <<>> THEN NoRows
       ELSE IF ~Exists(fs, data_file) THEN NoRows
       ELSE IF Unreadable(fs, data_file) THEN NoRows
       ELSE LET res == Slice(fs[data_file], w)
            IN IF res # {} THEN [some |-> TRUE, rows |-> res] ELSE NoRows

\* BarCacheAdapter.load, io/cache.py 195-226
BarCacheAdapterLoad(t, w, root, fs) ==
    LET data_file == BarFile(root, t)
    IN IF ~IsValid(w) THEN NoRows
       ELSE IF data_file = <<>> THEN NoRows
       ELSE IF ~Exists(fs, data_file) THEN NoRows
       ELSE IF Unreadable(fs, data_file) THEN NoRows
       ELSE LET res == Slice(fs[data_file], w)
            IN IF res # {} THEN [some |-> TRUE, rows |-> res] ELSE NoRows

\* BarCacheAdapter.load, io/cache.py 201-215: whether pd.read_parquet is reached
BarCacheAdapterReads(t, w, root, fs) ==
    /\ IsValid(w)
    /\ BarFile(root, t) # <<>>
    /\ Exists(fs, BarFile(root, t))

\* BarCacheAdapter.save, io/cache.py 235-251: the level of the message logged
BarCacheAdapterSaveLog(data, t, root, nowv) ==
    IF data = {} THEN "WARNING"
    ELSE IF GetCacheRoot(root) = <<>> THEN ""
    ELSE SaveIntradayLog(data, t, root, nowv)

\* BarCacheAdapter.save, io/cache.py 228-251: the files afterwards
BarCacheAdapterSave(data, t, w, root, nowv, fs) ==
    IF data = {} THEN fs
    ELSE IF GetCacheRoot(root) = <<>> THEN fs
    ELSE SaveIntraday(data, t, root, nowv, fs)

(***************************************************************************)
(* blp.py: bdib and its helpers.                                           *)
(***************************************************************************)
\* _load_cached_bdib, blp.py 225-230: pd.read_parquet is not guarded, the error
\* of a file that does not deserialize leaves the function
LoadCachedBdibRaises(t, session, cache, reload, root, fs) ==
    /\ Exists(fs, BarFile(root, t)) /\ cache /\ ~reload
    /\ Unreadable(fs, BarFile(root, t))

\* a slip: the reload flag is not looked at
LoadCachedBdib_IgnoresReload(t, session, cache, reload, root, fs) ==
    LET ss_rng == TimeRange(t, session)
        data_file == BarFile(root, t)
    IN IF Exists(fs, data_file) /\ cache
       THEN LET res == Slice(fs[data_file], ss_rng)
            IN IF res # {} THEN [some |-> TRUE, rows |-> res] ELSE NoRows
       ELSE NoRows

\* a slip: the reload flag is read the wrong way round
LoadCachedBdib_ReloadInverted(t, session, cache, reload, root, fs) ==
    LET ss_rng == TimeRange(t, session)
        data_file == BarFile(root, t)
    IN IF Exists(fs, data_file) /\ cache /\ reload
       THEN LET res == Slice(fs[data_file], ss_rng)
            IN IF res # {} THEN [some |-> TRUE, rows |-> res] ELSE NoRows
       ELSE NoRows

\* _load_cached_bdib, blp.py 217-234
LoadCachedBdib(t, session, cache, reload, root, fs) ==
    LET ss_rng == TimeRange(t, session)
        data_file == BarFile(root, t)
    IN IF Exists(fs, data_file) /\ cache /\ ~reload
       THEN LET res == Slice(fs[data_file], ss_rng)
            IN IF res # {} THEN [some |-> TRUE, rows |-> res] ELSE NoRows
       ELSE NoRows

\* _build_bdib_request, blp.py 375-429: the request's settings
BuildBdibRequest(t, ex_info) ==
    LET time_rng == TimeRange(t, "allday")
        dflt == IF "allday" \in DOMAIN ex_info.sess
                THEN ex_info.sess["allday"] ELSE <<0, 1439>>
    IN [security |-> t,
        s |-> IF time_rng.s = None \/ time_rng.e = None THEN dflt[1] ELSE time_rng.s,
        e |-> IF time_rng.s = None \/ time_rng.e = None THEN dflt[2] ELSE time_rng.e]

Sessions == {"allday", "day", "am"}

\* composite session expressions
CompositeSessions == {"day_open_30", "day_close_30"}

\* the exchange info bdib works with, blp.py 491-508
ResolveExchInfo(t, session, pmc) ==
    LET ex0 == ExchInfo(t)
    IN IF ex0.empty
       THEN IF IsFixedIncome(t)
            THEN GetDefaultExchangeInfo(t, session, pmc)
            ELSE [exc |-> "KeyError", info |-> EmptyInfo]
       ELSE [exc |-> "", info |-> ex0]

\* the same for each request of the model, computed once
ExchInfoTable ==
    [x \in Tickers \X (Sessions \cup CompositeSessions) \X PmcOutcomes
        |-> ResolveExchInfo(x[1], x[2], x[3])] @@ <<>>

BdibExchInfo(t, session, pmc) == ExchInfoTable[<<t, session, pmc>>]

\* the branch of bdib that supplied the request's exchange info and ticker
StrategyUsed(t, session, pmc) ==
    LET ex0 == ExchInfo(t)
    IN IF BdibExchInfo(t, session, pmc).exc # "" THEN "none"
       ELSE IF ex0.empty THEN "FixedIncomeDefaultResolver"
       ELSE IF ex0.is_fut /\ ResolveBdibTicker(t, ex0)[1] # t THEN "FuturesRollResolver"
       ELSE "ExchangeYamlResolver"

\* a slip: the threshold is exclusive
TrialsExceeded_OffByOne(num_trials) == num_trials > TrialThreshold

\* the threshold test of bdib, blp.py 526
TrialsExceeded(num_trials) == num_trials >= TrialThreshold

Out(outcome, exc, tz, q, fetched, sent, lr, lw, log, rows, led, fs) ==
    [outcome |-> outcome, exc |-> exc, tz |-> tz, q_tckr |-> q,
     fetched |-> fetched, sent |-> sent, ledgerRead |-> lr, ledgerWrite |-> lw,
     log |-> log, rows |-> rows, ledger |-> led, files |-> fs]

\* _process_bdib_response, blp.py 432-454, for a non-empty response
ProcessBdibResponse(data, t, session, cache, root, nowv, fs) ==
    [files |-> IF cache THEN SaveIntraday(data, t, root, nowv, fs) ELSE fs,
     rows |-> Slice(data, TimeRange(t, session))]

\* a slip: a fetch that returns bars resets the count of the key
BdibRun_ResetOnData(t, session, cache, reload, batch, pmc, current, resp, root, nowv, led, fs) ==
    LET ei == BdibExchInfo(t, session, pmc)
        ex_info == ei.info
        cached_data == LoadCachedBdib(t, session, cache, reload, root, fs)
        rq == ResolveBdibTicker(t, ex_info)
        q_tckr == rq[1]
        trial_kw == TrialKey("bdib", t)
        num_trials == NumTrials(root, led, trial_kw)
        request == BuildBdibRequest(t, ex_info)
        res == {b \in resp : request.s <= b /\ b <= request.e}
        done == ProcessBdibResponse(res, t, session, cache, root, nowv, fs)
    IN IF ei.exc # ""
       THEN Out("raise", ei.exc, "", "", 0, "", FALSE, FALSE, "", {}, led, fs)
       ELSE IF LoadCachedBdibRaises(t, session, cache, reload, root, fs)
       THEN Out("raise", "ArrowInvalid", ex_info.tz, "", 0, "", FALSE, FALSE, "", {}, led, fs)
       ELSE IF cached_data.some
       THEN Out("cached", "", ex_info.tz, "", 0, "", FALSE, FALSE, "DEBUG",
                cached_data.rows, led, fs)
       ELSE IF ~current
       THEN Out("not_current", "", ex_info.tz, "", 0, "", FALSE, FALSE, "", {}, led, fs)
       ELSE IF ~rq[2]
       THEN Out("unresolved", "", ex_info.tz, "", 0, "", FALSE, FALSE, "ERROR", {}, led, fs)
       ELSE IF TrialsExceeded(num_trials)
       THEN Out("trial_exceeded", "", ex_info.tz, q_tckr, 0, "", TRUE, FALSE,
                IF batch THEN "" ELSE "INFO", {}, led, fs)
       ELSE IF res = {}
       THEN Out("no_data", "", ex_info.tz, q_tckr, 1, request.security, TRUE, TRUE,
                "WARNING", {}, UpdateTrials(root, led, trial_kw, num_trials + 1), fs)
       ELSE IF cache /\ SaveIntradayRaises(res, t, root, nowv)
       THEN Out("raise", "PermissionError", ex_info.tz, q_tckr, 1, request.security,
                TRUE, FALSE, "", {}, led, fs)
       ELSE Out("data", "", ex_info.tz, q_tckr, 1, request.security, TRUE, FALSE,
                "", done.rows, UpdateTrials(root, led, trial_kw, 0), done.files)

\* bdib, blp.py 457-549.  current is the answer of process.check_current,
\* resp the bars the upstream holds for the day.
BdibRun(t, session, cache, reload, batch, pmc, current, resp, root, nowv, led, fs) ==
    LET ei == BdibExchInfo(t, session, pmc)
        ex_info == ei.info
        cached_data == LoadCachedBdib(t, session, cache, reload, root, fs)
        rq == ResolveBdibTicker(t, ex_info)
        q_tckr == rq[1]
        trial_kw == TrialKey("bdib", t)
        num_trials == NumTrials(root, led, trial_kw)
        request == BuildBdibRequest(t, ex_info)
        res == {b \in resp : request.s <= b /\ b <= request.e}
        done == ProcessBdibResponse(res, t, session, cache, root, nowv, fs)
    IN IF ei.exc # ""
       THEN Out("raise", ei.exc, "", "", 0, "", FALSE, FALSE, "", {}, led, fs)
       ELSE IF LoadCachedBdibRaises(t, session, cache, reload, root, fs)
       THEN Out("raise", "ArrowInvalid", ex_info.tz, "", 0, "", FALSE, FALSE, "", {}, led, fs)
       ELSE IF cached_data.some
       THEN Out("cached", "", ex_info.tz, "", 0, "", FALSE, FALSE, "DEBUG",
                cached_data.rows, led, fs)
       ELSE IF ~current
       THEN Out("not_current", "", ex_info.tz, "", 0, "", FALSE, FALSE, "", {}, led, fs)
       ELSE IF ~rq[2]
       THEN Out("unresolved", "", ex_info.tz, "", 0, "", FALSE, FALSE, "ERROR", {}, led, fs)
       ELSE IF TrialsExceeded(num_trials)
       THEN Out("trial_exceeded", "", ex_info.tz, q_tckr, 0, "", TRUE, FALSE,
                IF batch THEN "" ELSE "INFO", {}, led, fs)
       ELSE IF res = {}
       THEN Out("no_data", "", ex_info.tz, q_tckr, 1, request.security, TRUE, TRUE,
                "WARNING", {}, UpdateTrials(root, led, trial_kw, num_trials + 1), fs)
       ELSE IF cache /\ SaveIntradayRaises(res, t, root, nowv)
       THEN Out("raise", "PermissionError", ex_info.tz, q_tckr, 1, request.security,
                TRUE, FALSE, "", {}, led, fs)
       ELSE Out("data", "", ex_info.tz, q_tckr, 1, request.security, TRUE, FALSE,
                "", done.rows, led, done.files)

(***************************************************************************)
(* The orchestrator's state machine: a process makes bdib calls one after  *)
(* another on its tickers, updates the ledger explicitly, and the clock    *)
(* advances.                                                               *)
(***************************************************************************)
Responses == {{}, {600}, {300, 1100}}
Instants == {1205, 1260, 1320}
OrchInstants == {1205, 1260}

\* no session is registered for a port
NoSession == 0

\* the default port, conn.py _PORT_, and one other
Ports == {8194, 8195}

NoCon == [p \in Ports |-> NoSession]

\* live() has not been called
NoGen ==
    [pc |-> "none", max_cnt |-> 0, cnt |-> 0, yielded |-> 0, subscribed |-> FALSE,
     queued |-> 0]

\* a fresh process: nothing logged, no session, no generator
InitProcess ==
    /\ defaultCacheLogged = FALSE
    /\ infoLogs = 0
    /\ xcon = NoCon
    /\ handles = {}
    /\ made = {}
    /\ gen = NoGen

NoOp ==
    [op |-> "none", ticker |-> "", session |-> "", cache |-> FALSE, reload |-> FALSE,
     batch |-> FALSE, strategy |-> "none", outcome |-> "", exc |-> "", tz |-> "",
     q_tckr |-> "", fetched |-> 0, sent |-> "", ledgerRead |-> FALSE,
     ledgerWrite |-> FALSE, log |-> "", rows |-> {}]

NoLedger == [k \in {} |-> 0]
NoFiles == [p \in {} |-> {}]
\* no concurrent process besides the caller
NoProcs == <<>>

NoHist == [k \in {} |-> [base |-> 0, incs |-> 0, explicit |-> FALSE]]

\* a row another function left in the ledger for the same ticker
OtherRow(t) == TrialKey("bdh", t) :> MaxCnt

\* a process works with one ticker; the ledger under a configured root may
\* already hold another key's row
Init ==
    /\ bbgRoot \in Roots
    /\ now \in OrchInstants
    /\ tickers \in {{t} : t \in Tickers}
    /\ ledger \in {NoLedger} \cup
                  (IF bbgRoot = RootUnset THEN {} ELSE {OtherRow(t) : t \in tickers})
    /\ files = NoFiles
    /\ last = NoOp
    /\ hist = NoHist
    /\ procs = NoProcs
    /\ InitProcess

\* the lookups of pandas-market-calendars only happen for fixed-income tickers
PmcFor(t) == IF ExchInfo(t).empty /\ IsFixedIncome(t) THEN PmcOutcomes ELSE {"unavailable"}

\* what a bdib call leaves behind: the ledger, the files, and the record of
\* the call with what it returned
BdibReturns(r, t, session, cache, reload, batch, pmc) ==
    /\ ledger' = r.ledger
    /\ files' = r.files
    /\ last' = [op |-> "bdib", ticker |-> t, session |-> session,
                cache |-> cache, reload |-> reload, batch |-> batch,
                strategy |-> StrategyUsed(t, session, pmc),
                outcome |-> r.outcome, exc |-> r.exc, tz |-> r.tz,
                q_tckr |-> r.q_tckr, fetched |-> r.fetched, sent |-> r.sent,
                ledgerRead |-> r.ledgerRead, ledgerWrite |-> r.ledgerWrite,
                log |-> r.log, rows |-> r.rows]

Bdib(t, session, cache, reload, batch, pmc, current, resp) ==
    /\ last.op = "none"
    /\ BdibReturns(BdibRun(t, session, cache, reload, batch, pmc, current, resp,
                           bbgRoot, now, ledger, files),
                   t, session, cache, reload, batch, pmc)
    /\ GetCacheRootCalled(BdibExchInfo(t, session, pmc).exc = "")
    /\ UNCHANGED <<bbgRoot, now, tickers, hist, procs, connVars, gen>>

\* trials.update_trials(cnt=c, ticker=t, dt=..., typ='TRADE', func='bdib') by the
\* caller, as the live tests do to reset a key
ResetTrials(t, c) ==
    /\ last.op = "none"
    /\ ledger' = UpdateTrials(bbgRoot, ledger, TrialKey("bdib", t), c)
    /\ last' = [NoOp EXCEPT !.op = "update_trials", !.ticker = t]
    /\ UNCHANGED <<bbgRoot, now, files, tickers, hist, procs, logVars, connVars, gen>>

\* the operation returns to its caller
Return ==
    /\ last.op # "none"
    /\ last' = NoOp
    /\ UNCHANGED <<bbgRoot, now, ledger, files, tickers, hist, procs, logVars, connVars, gen>>

\* the wall clock advances (between operations)
Tick ==
    /\ last.op = "none"
    /\ \E n \in OrchInstants : n > now /\ now' = n
    /\ UNCHANGED <<bbgRoot, ledger, files, tickers, last, hist, procs, logVars, connVars, gen>>

Next ==
    \/ \E t \in tickers, session \in Sessions, cache \in BOOLEAN, reload \in BOOLEAN,
          batch \in BOOLEAN, current \in BOOLEAN, resp \in Responses :
          \E pmc \in PmcFor(t) :
             Bdib(t, session, cache, reload, batch, pmc, current, resp)
    \/ \E t \in tickers, c \in 0..MaxCnt : ResetTrials(t, c)
    \/ Return
    \/ Tick

Spec == Init /\ [][Next]_vars

(***************************************************************************)
(* The resolver chain of xbbg.markets.resolver_chain, as the design        *)
(* describes it and its tests pin it.                                      *)
(***************************************************************************)
ResolverChain ==
    <<"FixedIncomeDefaultResolver", "FuturesRollResolver",
      "PmcCalendarResolver", "ExchangeYamlResolver">>

\* can_resolve of each strategy (tests/api/test_intraday_pipeline.py 146-189)
CanResolve(strategy, t, session) ==
    CASE strategy = "FixedIncomeDefaultResolver" -> IsFixedIncome(t)
      [] strategy = "FuturesRollResolver" -> TRUE
      [] strategy = "PmcCalendarResolver" -> session = "day"
      [] strategy = "ExchangeYamlResolver" -> TRUE

\* the first strategy of the chain whose can_resolve is true
FirstCanResolve(t, session) ==
    LET ok == {i \in 1..Len(ResolverChain) : CanResolve(ResolverChain[i], t, session)}
    IN ResolverChain[CHOOSE i \in ok : \A j \in ok : i <= j]

(***************************************************************************)
(* Properties of the orchestrator (specification Spec).                    *)
(***************************************************************************)
\* a step in which a bdib call runs
BdibStep == last.op = "none" /\ last'.op = "bdib"

\* the count of the key of the bdib call that produced last
CountOfLast == NumTrials(bbgRoot, ledger, TrialKey("bdib", last.ticker))

\* C1: a bdib call made while the ledger count of its key (bdib, ticker, date,
\* event type) is >= 2 issues no external fetch and leaves the count as it is;
\* unless it is answered from the cache it returns an empty result, and when it
\* stops at the threshold it logs at INFO exactly when not in batch mode.
C1_ThresholdShortCircuit ==
    [][(BdibStep /\ NumTrials(bbgRoot, ledger, TrialKey("bdib", last'.ticker)) >= 2)
       => /\ last'.fetched = 0
          /\ ledger' = ledger
          /\ last'.outcome # "cached" => last'.rows = {}
          /\ last'.ledgerRead => last'.log = (IF last'.batch THEN "" ELSE "INFO")]_vars

C1_Witness ==
    /\ last.op = "bdib"
    /\ last.ledgerRead
    /\ ~last.batch
    /\ last.log = "INFO"
    /\ last.fetched = 0
    /\ CountOfLast >= 2

\* C3: when the bar cache file of (ticker, date, event type) exists and holds a
\* row inside the requested session window, a bdib call with cache enabled and
\* reload false returns exactly the cached rows of the window and sends no
\* request upstream.
C3_CacheHitAvoidsFetch ==
    [][(/\ BdibStep
        /\ last'.cache /\ ~last'.reload
        /\ IsValid(TimeRange(last'.ticker, last'.session))
        /\ Exists(files, BarFile(bbgRoot, last'.ticker))
        /\ Slice(files[BarFile(bbgRoot, last'.ticker)],
                 TimeRange(last'.ticker, last'.session)) # {})
       => /\ last'.fetched = 0
          /\ last'.rows = Slice(files[BarFile(bbgRoot, last'.ticker)],
                                TimeRange(last'.ticker, last'.session))
          /\ files' = files]_vars

C3_Witness ==
    /\ last.op = "bdib"
    /\ last.cache /\ ~last.reload
    /\ last.outcome = "cached"
    /\ last.rows = {600}
    /\ last.fetched = 0

\* C6 (as claimed): the strategy bdib resolves a request with is the first of
\* the four strategies, in the order FixedIncomeDefault, FuturesRoll,
\* PmcCalendar, ExchangeYaml, whose can_resolve is true for the request.
C6_FirstCanResolveIsUsed ==
    (last.op = "bdib" /\ last.strategy # "none")
       => /\ Len(ResolverChain) = 4
          /\ last.strategy = FirstCanResolve(last.ticker, last.session)

\* C7: each of the four named tickers resolves via one fixed strategy, whatever
\* the session, the flags and the state of cache and ledger.
C7_ResolverDeterminism ==
    last.op = "bdib"
       => /\ last.ticker = "AAPL US Equity" => last.strategy = "ExchangeYamlResolver"
          /\ last.ticker = "/isin/US912810FE39"
                => last.strategy = "FixedIncomeDefaultResolver"
          /\ last.ticker = "US912810FE39 Govt"
                => last.strategy = "FixedIncomeDefaultResolver"
          /\ last.ticker = "ES1 Index" => last.strategy = "FuturesRollResolver"

C7_Witness ==
    /\ last.op = "bdib"
    /\ last.ticker = "US912810FE39 Govt"
    /\ last.strategy = "FixedIncomeDefaultResolver"
    /\ last.tz = "America/New_York"

\* the exception classes that are LookupError or derive from it
LookupErrorKinds == {"LookupError", "KeyError", "IndexError"}

\* a /cusip/... or /sedol/... ticker without an entry in the exchange table
UnmappedCusipSedol(t) ==
    /\ StartsWith(Chars(t), Str_cusip) \/ StartsWith(Chars(t), Str_sedol)
    /\ ExchInfo(t).empty

\* C8 (as claimed): a bdib call for an unmapped /cusip/ or /sedol/ ticker ends
\* in an exception of LookupError kind and gets no default time zone.
C8_CusipSedolLookupError ==
    (last.op = "bdib" /\ UnmappedCusipSedol(last.ticker))
       => /\ last.outcome = "raise"
          /\ last.exc \in LookupErrorKinds
          /\ last.tz = ""

\* C8 (amended): a bdib call for an unmapped /cusip/ or /sedol/ ticker ends in a
\* raised ValueError; it gets no default time zone or full-day exchange info,
\* sends no request and leaves cache and ledger alone.
C8_CusipSedolValueError ==
    (last.op = "bdib" /\ UnmappedCusipSedol(last.ticker))
       => /\ last.outcome = "raise"
          /\ last.exc = "ValueError"
          /\ last.tz = ""
          /\ last.strategy = "none"
          /\ last.fetched = 0

C8_Witness ==
    /\ last.op = "bdib"
    /\ last.ticker = "/cusip/12345678"
    /\ last.outcome = "raise"
    /\ last.exc = "ValueError"

\* the tickers bdib cannot resolve: no exchange info and not fixed income, an
\* unmapped CUSIP/SEDOL identifier, or a generic future without a contract
CannotResolve(t) ==
    \/ ExchInfo(t).empty /\ ~IsFixedIncome(t)
    \/ UnmappedCusipSedol(t)
    \/ ExchInfo(t).is_fut /\ ~ExchInfo(t).has_sprd /\ FutTicker(t, ExchInfo(t).freq) = ""

\* C9: a bdib call for a ticker that cannot be resolved ends without a request
\* sent upstream and without reading or writing the trial ledger: the ledger is
\* the same after the call.
C9_ResolutionFailureSkipsLedger ==
    [][(BdibStep /\ CannotResolve(last'.ticker))
       => /\ last'.fetched = 0
          /\ ~last'.ledgerRead
          /\ ~last'.ledgerWrite
          /\ last'.rows = {}
          /\ ledger' = ledger]_vars

C9_Witness ==
    /\ last.op = "bdib"
    /\ last.ticker = "ZZ1 Index"
    /\ last.outcome = "unresolved"
    /\ ~last.ledgerRead
    /\ CountOfLast = 1

(***************************************************************************)
(* The trial ledger on its own: a caller counts, increments and sets the   *)
(* rows of its ticker.  hist remembers, per key, the last explicit count   *)
(* (0 for a key never set) and the increments since.                       *)
(***************************************************************************)
LedgerOp(op, func, t, cnt, count) ==
    [op |-> op, func |-> func, ticker |-> t, cnt |-> cnt, count |-> count, exc |-> ""]

HistCount(h, key) == IF key \in DOMAIN h THEN h[key].base + h[key].incs ELSE 0

InitLedger ==
    /\ bbgRoot \in Roots
    /\ now \in OrchInstants
    /\ tickers \in {{t} : t \in Tickers}
    /\ ledger = NoLedger
    /\ files = NoFiles
    /\ last = NoOp
    /\ hist = NoHist
    /\ procs = NoProcs
    /\ InitProcess

\* trials.num_trials(func=func, ticker=t, dt=..., typ='TRADE')
CountOp(func, t) ==
    /\ last.op = "none"
    /\ last' = LedgerOp("num_trials", func, t, None,
                        NumTrials(bbgRoot, ledger, TrialKey(func, t)))
    /\ UNCHANGED <<bbgRoot, now, ledger, files, tickers, hist, procs, logVars, connVars, gen>>

\* trials.update_trials(cnt=num_trials(...) + 1, ...), as bdib does at 542-547
IncrOp(func, t) ==
    LET key == TrialKey(func, t)
        cnt == NumTrials(bbgRoot, ledger, key) + 1
    IN /\ last.op = "none"
       /\ HistCount(hist, key) < MaxCnt
       /\ ledger' = UpdateTrials(bbgRoot, ledger, key, cnt)
       /\ hist' = [k \in DOMAIN hist \cup {key} |->
                      IF k = key
                      THEN IF key \in DOMAIN hist
                           THEN [hist[key] EXCEPT !.incs = @ + 1]
                           ELSE [base |-> 0, incs |-> 1, explicit |-> FALSE]
                      ELSE hist[k]]
       /\ last' = LedgerOp("update_trials", func, t, cnt, 0)
       /\ UNCHANGED <<bbgRoot, now, files, tickers, procs, logVars, connVars, gen>>

\* trials.update_trials(cnt=c, ...) with an explicit count
SetOp(func, t, c) ==
    LET key == TrialKey(func, t)
    IN /\ last.op = "none"
       /\ ledger' = UpdateTrials(bbgRoot, ledger, key, c)
       /\ hist' = [k \in DOMAIN hist \cup {key} |->
                      IF k = key THEN [base |-> c, incs |-> 0, explicit |-> TRUE]
                      ELSE hist[k]]
       /\ last' = LedgerOp("set_trials", func, t, c, 0)
       /\ UNCHANGED <<bbgRoot, now, files, tickers, procs, logVars, connVars, gen>>

NextLedger ==
    \/ \E func \in Funcs, t \in tickers : CountOp(func, t)
    \/ \E func \in Funcs, t \in tickers : IncrOp(func, t)
    \/ \E func \in Funcs, t \in tickers, c \in 0..MaxCnt : SetOp(func, t, c)
    \/ Return

SpecLedger == InitLedger /\ [][NextLedger]_vars

\* C2: on a configured root, the count of every key equals the number of
\* update(cnt=count+1) operations made on it since it was unset (count 0) or
\* since its last explicit update, plus that explicit count; right after an
\* update with an explicit cnt the count of the key is that cnt.
C2_TrialMonotonicity ==
    bbgRoot # RootUnset
       => /\ \A func \in Funcs, t \in tickers :
                NumTrials(bbgRoot, ledger, TrialKey(func, t))
                   = HistCount(hist, TrialKey(func, t))
          /\ last.op = "set_trials"
                => NumTrials(bbgRoot, ledger, TrialKey(last.func, last.ticker)) = last.cnt

C2_Witness ==
    /\ bbgRoot # RootUnset
    /\ \E t \in tickers :
          /\ TrialKey("bdib", t) \in DOMAIN hist
          /\ ~hist[TrialKey("bdib", t)].explicit
          /\ hist[TrialKey("bdib", t)].incs = 3
          /\ NumTrials(bbgRoot, ledger, TrialKey("bdib", t)) = 3

\* a step that is a ledger write by the caller
UpdateStep == last.op = "none" /\ last'.op \in {"update_trials", "set_trials"}

\* a step that is a ledger read by the caller
CountStep == last.op = "none" /\ last'.op = "num_trials"

\* the ledger has nothing to say about the key of the step's operation
NoTracking == bbgRoot = RootUnset \/ TrialKey(last'.func, last'.ticker) \notin DOMAIN ledger

\* C10 (as claimed): when no root is configured or the key has no row, count
\* returns 0 and update changes nothing; neither raises.
C10_DegradationAsClaimed ==
    [][/\ (CountStep /\ NoTracking) => (last'.count = 0 /\ last'.exc = "")
       /\ (UpdateStep /\ NoTracking) => (ledger' = ledger /\ last'.exc = "")]_vars

\* C10 (amended): count returns 0 when no root is configured or the key has no
\* row; update changes nothing when no root is configured, and with a root it
\* creates the missing row; neither raises.
C10_LedgerDegradation ==
    [][/\ (CountStep /\ NoTracking) => (last'.count = 0 /\ last'.exc = "")
       /\ (UpdateStep /\ bbgRoot = RootUnset) => (ledger' = ledger /\ last'.exc = "")
       /\ (UpdateStep /\ bbgRoot # RootUnset)
             => /\ TrialKey(last'.func, last'.ticker) \in DOMAIN ledger'
                /\ ledger'[TrialKey(last'.func, last'.ticker)] = last'.cnt
                /\ last'.exc = ""]_vars

C10_Witness ==
    /\ last.op = "set_trials"
    /\ last.cnt = 2
    /\ bbgRoot = RootUnset
    /\ ledger = NoLedger
    /\ \E t \in tickers : HistCount(hist, TrialKey("bdh", t)) = 1

(***************************************************************************)
(* The bar cache on its own: a caller saves and loads payloads through     *)
(* BarCacheAdapter, files get removed, and the clock advances.  hist is    *)
(* the save call since which the file was neither removed nor saved again. *)
(***************************************************************************)
CacheWindows ==
    {[s |-> 570, e |-> 960], [s |-> 240, e |-> 1200], NoWindow,
     [s |-> None, e |-> 960], [s |-> 570, e |-> None]}

NoSave == [op |-> "none"]

InitCache ==
    /\ bbgRoot \in Roots
    /\ now \in Instants
    /\ tickers \in {{t} : t \in Tickers}
    /\ ledger = NoLedger
    /\ files = NoFiles
    /\ last = NoOp
    /\ hist = NoSave
    /\ procs = NoProcs
    /\ InitProcess

\* BarCacheAdapter().save(data, request, session_window)
AdapterSave(t, data, w) ==
    /\ last.op = "none"
    /\ files' = BarCacheAdapterSave(data, t, w, bbgRoot, now, files)
    /\ last' = [op |-> "save", ticker |-> t, data |-> data, window |-> w, at |-> now,
                log |-> BarCacheAdapterSaveLog(data, t, bbgRoot, now)]
    /\ hist' = last'
    /\ GetCacheRootCalled(data # {})
    /\ UNCHANGED <<bbgRoot, now, ledger, tickers, procs, connVars, gen>>

\* BarCacheAdapter().load(request, session_window); cache is the request's
\* cache policy (enabled or not)
AdapterLoad(t, w, cache) ==
    /\ last.op = "none"
    /\ last' = [op |-> "load", ticker |-> t, window |-> w, cache |-> cache,
                read |-> BarCacheAdapterReads(t, w, bbgRoot, files),
                res |-> BarCacheAdapterLoad(t, w, bbgRoot, files)]
    /\ GetCacheRootCalled(IsValid(w))
    /\ UNCHANGED <<bbgRoot, now, ledger, files, tickers, hist, procs, connVars, gen>>

\* save_intraday(data, ticker, dt, typ) called directly, as the legacy path does
SaveIntradayOp(t, data) ==
    /\ last.op = "none"
    /\ files' = SaveIntraday(data, t, bbgRoot, now, files)
    /\ last' = [op |-> "save_intraday", ticker |-> t, data |-> data, at |-> now,
                log |-> SaveIntradayLog(data, t, bbgRoot, now)]
    /\ hist' = IF files' = files THEN hist ELSE NoSave
    /\ GetCacheRootCalled(TRUE)
    /\ UNCHANGED <<bbgRoot, now, ledger, tickers, procs, connVars, gen>>

\* the cache file of a ticker is deleted from outside
RemoveFile(t) ==
    /\ last.op = "none"
    /\ Exists(files, BarFile(bbgRoot, t))
    /\ files' = [p \in DOMAIN files \ {BarFile(bbgRoot, t)} |-> files[p]]
    /\ hist' = NoSave
    /\ UNCHANGED <<bbgRoot, now, ledger, tickers, last, procs, logVars, connVars, gen>>

\* the wall clock advances (between operations)
TickCache ==
    /\ last.op = "none"
    /\ \E n \in Instants : n > now /\ now' = n
    /\ UNCHANGED <<bbgRoot, ledger, files, tickers, last, hist, procs, logVars, connVars, gen>>

NextCache ==
    \/ \E t \in tickers, data \in Responses, w \in CacheWindows : AdapterSave(t, data, w)
    \/ \E t \in tickers, w \in CacheWindows, cache \in BOOLEAN : AdapterLoad(t, w, cache)
    \/ \E t \in tickers, data \in Responses : SaveIntradayOp(t, data)
    \/ \E t \in tickers : RemoveFile(t)
    \/ TickCache
    \/ Return

SpecCache == InitCache /\ [][NextCache]_vars

\* a step in which a non-empty payload is saved for a ticker with a session
SaveStep ==
    /\ last.op = "none"
    /\ last'.op = "save"
    /\ last'.data # {}
    /\ ~ExchInfo(last'.ticker).empty

\* C4: a save made less than one hour (60 minutes) after the end of the
\* ticker's session persists nothing; a save made one hour or more after it
\* leaves the payload in the ticker's cache file.
C4_CompletenessGuard ==
    [][SaveStep
       => /\ now - MarketTiming(last'.ticker) < 60 => files' = files
          /\ now - MarketTiming(last'.ticker) >= 60
                => /\ Exists(files', BarFile(bbgRoot, last'.ticker))
                   /\ files'[BarFile(bbgRoot, last'.ticker)] = last'.data]_vars

C4_Witness ==
    /\ last.op = "save"
    /\ last.data = {300, 1100}
    /\ ~ExchInfo(last.ticker).empty
    /\ now - MarketTiming(last.ticker) = 5
    /\ files = NoFiles

\* a load of the ticker and window of the save call that hist remembers
LoadAfterSave ==
    /\ last.op = "load"
    /\ hist.op = "save"
    /\ hist.data # {}
    /\ hist.ticker = last.ticker
    /\ hist.window = last.window

Procs == 1..NumProcs

ConcTickers == {"AAPL US Equity", "/isin/US912810FE39", "ES1 Index"}

\* the key of process p
KeyOf(p) == TrialKey(procs[p].func, procs[p].ticker)

InitConc ==
    /\ bbgRoot \in Roots
    /\ now \in {1260}
    /\ tickers = ConcTickers
    /\ ledger = NoLedger
    /\ files = NoFiles
    /\ last = NoOp
    /\ hist = NoHist
    /\ InitProcess
    /\ procs \in [Procs -> {[pc |-> "idle", func |-> "bdib", ticker |-> t, n |-> 0, cycles |-> 0] :
                               t \in ConcTickers}]

\* num_trials = trials.num_trials(**trial_kw), blp.py 525
ReadCount(p) ==
    /\ procs[p].pc = "idle"
    /\ procs[p].cycles < MaxCycles
    /\ procs' = [procs EXCEPT ![p].pc = "counted",
                              ![p].n = NumTrials(bbgRoot, ledger, KeyOf(p))]
    /\ UNCHANGED <<bbgRoot, now, ledger, files, tickers, last, hist, logVars, connVars, gen>>

\* trials.update_trials(cnt=num_trials + 1, **trial_kw), blp.py 546
WriteCount(p) ==
    /\ procs[p].pc = "counted"
    /\ ledger' = UpdateTrials(bbgRoot, ledger, KeyOf(p), procs[p].n + 1)
    /\ procs' = [procs EXCEPT ![p].pc = "idle", ![p].cycles = @ + 1]
    /\ UNCHANGED <<bbgRoot, now, files, tickers, last, hist, logVars, connVars, gen>>

NextConc ==
    \/ \E p \in Procs : ReadCount(p)
    \/ \E p \in Procs : WriteCount(p)

SpecConc == InitConc /\ [][NextConc]_vars

\* the updates completed so far on the key of process p, by any process
Completed(p) ==
    Cardinality({x \in Procs \X (1..MaxCycles) :
                    KeyOf(x[1]) = KeyOf(p) /\ x[2] <= procs[x[1]].cycles})

\* C11: under every interleaving of count-then-update(count+1) cycles, the
\* stored count of a key is a natural number not larger than the number of
\* updates completed on the key so far; it is at least 1 once an update has
\* completed (on a configured root), and no process is ever stuck in an error.
C11_SameKeyCounts ==
    \A p \in Procs :
       /\ NumTrials(bbgRoot, ledger, KeyOf(p)) \in 0..Completed(p)
       /\ (bbgRoot # RootUnset /\ Completed(p) > 0)
             => NumTrials(bbgRoot, ledger, KeyOf(p)) >= 1
       /\ procs[p].pc \in {"idle", "counted"}

\* two processes completed a cycle on one key and one update was lost
C11_Witness ==
    /\ bbgRoot # RootUnset
    /\ \E p \in Procs, q \in Procs :
          /\ p # q
          /\ KeyOf(p) = KeyOf(q)
          /\ Completed(p) = 2
          /\ procs[p].cycles = 1 /\ procs[q].cycles = 1
          /\ NumTrials(bbgRoot, ledger, KeyOf(p)) = 1

\* the processes work on pairwise distinct keys
DistinctKeys == \A p \in Procs, q \in Procs : p # q => KeyOf(p) # KeyOf(q)

\* C12: when the processes work on pairwise distinct keys of a configured
\* root, starting from unset keys, the count of each key is the number of
\* cycles its own process completed, whatever the others do: once every
\* process has completed one cycle every key has count 1.
C12_DistinctKeyCounts ==
    (bbgRoot # RootUnset /\ DistinctKeys)
       => /\ \A p \in Procs : NumTrials(bbgRoot, ledger, KeyOf(p)) = procs[p].cycles
          /\ (\A p \in Procs : procs[p].cycles = 1 /\ procs[p].pc = "idle")
                => \A p \in Procs : NumTrials(bbgRoot, ledger, KeyOf(p)) = 1

C12_Witness ==
    /\ bbgRoot # RootUnset
    /\ DistinctKeys
    /\ \A p \in Procs : procs[p].cycles = 1 /\ procs[p].pc = "idle"
    /\ \A p \in Procs : KeyOf(p) \in DOMAIN ledger /\ ledger[KeyOf(p)] = 1

(***************************************************************************)
(* Further properties of the bar cache (specification SpecCache).          *)
(***************************************************************************)
\* C13 (as claimed): a load for a request whose cache policy is disabled
\* returns nothing, whatever the cache holds.
C13_DisabledCacheLoadsNothing ==
    (last.op = "load" /\ ~last.cache) => last.res = NoRows

\* C14: a window is valid iff both its timestamps are set, and a load with an
\* invalid window, or for a ticker without a cache file, returns nothing and
\* does not read a payload.
C14_InvalidWindowOrNoFile ==
    /\ \A w \in CacheWindows : IsValid(w) <=> (w.s # None /\ w.e # None)
    /\ (/\ last.op = "load"
        /\ \/ last.window.s = None
           \/ last.window.e = None
           \/ ~Exists(files, BarFile(bbgRoot, last.ticker)))
          => (last.res = NoRows /\ ~last.read)

\* a one-sided window on a ticker whose file has rows the open slice would take
C14_Witness ==
    /\ last.op = "load"
    /\ last.window = [s |-> 570, e |-> None]
    /\ Exists(files, BarFile(bbgRoot, last.ticker))
    /\ files[BarFile(bbgRoot, last.ticker)] = {600}
    /\ last.res = NoRows

\* C15: the rows a load returns are exactly the rows of the cache file with
\* window.start <= timestamp <= window.end, and a load whose window holds no
\* row of the file returns nothing.
C15_LoadRestrictsToWindow ==
    last.op = "load"
       => /\ last.res.some
                => /\ last.res.rows # {}
                   /\ \A b \in last.res.rows :
                         last.window.s <= b /\ b <= last.window.e
                   /\ last.res.rows =
                         {b \in files[BarFile(bbgRoot, last.ticker)] :
                             last.window.s <= b /\ b <= last.window.e}
          /\ (/\ Exists(files, BarFile(bbgRoot, last.ticker))
              /\ \A b \in files[BarFile(bbgRoot, last.ticker)] :
                    ~(last.window.s <= b /\ b <= last.window.e))
                => last.res = NoRows

\* the file holds bars outside the day window only
C15_Witness ==
    /\ last.op = "load"
    /\ last.window = [s |-> 570, e |-> 960]
    /\ Exists(files, BarFile(bbgRoot, last.ticker))
    /\ files[BarFile(bbgRoot, last.ticker)] = {300, 1100}
    /\ last.res = NoRows

\* a step that saves an empty payload, through the adapter or directly
EmptySaveStep ==
    /\ last.op = "none"
    /\ last'.op \in {"save", "save_intraday"}
    /\ last'.data = {}

\* C17: a save of an empty payload, by BarCacheAdapter.save or by
\* save_intraday, leaves every cache file as it was and logs a warning.
C17_EmptySaveIsNoOp ==
    [][EmptySaveStep => (files' = files /\ last'.log = "WARNING")]_vars

\* an empty save_intraday at a time a non-empty one would have been written
C17_Witness ==
    /\ last.op = "save_intraday"
    /\ last.data = {}
    /\ last.log = "WARNING"
    /\ ~ExchInfo(last.ticker).empty
    /\ now = 1320
    /\ files = NoFiles

(***************************************************************************)
(* Further properties of the orchestrator (specification Spec).            *)
(***************************************************************************)
\* save_intraday lets the data of the step's ticker through: the ticker has an
\* entry in the exchange table and its market closed an hour ago or more
SavePasses ==
    /\ ~ExchInfo(last'.ticker).empty
    /\ now - MarketTiming(last'.ticker) >= 60

WriterIdle == [pc |-> "idle", ticker |-> "", data |-> {}]

InitDisk ==
    /\ bbgRoot \in {RootDir, RootDenied}
    /\ now \in {1260}
    /\ tickers \in {{t} : t \in Tickers}
    /\ ledger = NoLedger
    /\ files = NoFiles
    /\ last = NoOp
    /\ hist = NoHist
    /\ procs = WriterIdle
    /\ InitProcess

\* the other process opens the ticker's cache file for writing: to_parquet
\* creates (or truncates) the file at its final path, cache.py 183-184
BeginWrite(t, data) ==
    /\ procs.pc = "idle"
    /\ data # {}
    /\ SaveIntraday(data, t, bbgRoot, now, NoFiles) # NoFiles
    /\ files' = WriteFile(files, BarFile(bbgRoot, t), PartialPayload)
    /\ procs' = [pc |-> "writing", ticker |-> t, data |-> data]
    /\ UNCHANGED <<bbgRoot, now, ledger, tickers, last, hist, logVars, connVars, gen>>

\* to_parquet of the other process finishes: the file is complete
EndWrite ==
    /\ procs.pc = "writing"
    /\ files' = SaveIntraday(procs.data, procs.ticker, bbgRoot, now, files)
    /\ procs' = WriterIdle
    /\ UNCHANGED <<bbgRoot, now, ledger, tickers, last, hist, logVars, connVars, gen>>

\* the bytes of a cache file get damaged (disk fault, killed writer)
CorruptFile(t) ==
    /\ procs.pc = "idle"
    /\ Exists(files, BarFile(bbgRoot, t))
    /\ files[BarFile(bbgRoot, t)] # CorruptPayload
    /\ files' = WriteFile(files, BarFile(bbgRoot, t), CorruptPayload)
    /\ UNCHANGED <<bbgRoot, now, ledger, tickers, last, hist, procs, logVars, connVars, gen>>

\* this process calls bdib or loads through the adapter
BdibOnDisk(t, session, cache, reload, pmc, current, resp) ==
    /\ Bdib(t, session, cache, reload, FALSE, pmc, current, resp)
    /\ UNCHANGED procs

NextDisk ==
    \/ \E t \in tickers, session \in Sessions, cache \in BOOLEAN, reload \in BOOLEAN,
          current \in BOOLEAN, resp \in Responses :
          \E pmc \in PmcFor(t) : BdibOnDisk(t, session, cache, reload, pmc, current, resp)
    \/ \E t \in tickers, w \in CacheWindows, cache \in BOOLEAN : AdapterLoad(t, w, cache)
    \/ \E t \in tickers, data \in Responses : BeginWrite(t, data)
    \/ EndWrite
    \/ \E t \in tickers : CorruptFile(t)
    \/ Return

SpecDisk == InitDisk /\ [][NextDisk]_vars

\* C18 (as claimed): a read of a cache payload that does not deserialize is a
\* cache miss: the call does not raise, and bdib goes on to the fetch path.
C18_CorruptIsMiss ==
    [][/\ (/\ BdibStep
           /\ last'.cache /\ ~last'.reload
           /\ BdibExchInfo(last'.ticker, last'.session, "unavailable").exc = ""
           /\ Unreadable(files, BarFile(bbgRoot, last'.ticker)))
          => (last'.outcome \notin {"raise", "cached"} /\ last'.exc = "")
       /\ (/\ last.op = "none" /\ last'.op = "load"
           /\ Unreadable(files, BarFile(bbgRoot, last'.ticker)))
          => last'.res = NoRows]_vars

\* C19 (as claimed): with an unusable root no storage error reaches the caller
\* of bdib, nothing is cached or counted, and a non-empty fetched result is
\* returned.
C19_StorageUnavailableIsSilent ==
    [][(BdibStep /\ ~Accessible(bbgRoot))
       => /\ last'.exc # "PermissionError"
          /\ files' = files /\ ledger' = ledger
          /\ last'.fetched = 1 => last'.outcome \in {"data", "no_data"}]_vars

\* C20 (as claimed): no file at a cache path ever holds an incomplete payload.
C20_NoPartialFileVisible ==
    \A p \in DOMAIN files : files[p] # PartialPayload


(***************************************************************************)
(* Outcomes of bdib for windows without boundaries and for tickers that    *)
(* cannot be resolved.                                                     *)
(***************************************************************************)
\* the requested session gives the ticker no window (process.time_range
\* returns (None, None)) and the call was not stopped by a resolution error
InvalidWindowCall ==
    /\ BdibStep
    /\ ~IsValid(TimeRange(last'.ticker, last'.session))
    /\ last'.outcome # "raise"

\* C21 (as claimed): a bdib call whose session resolves to a window without
\* boundaries returns an empty result, neither reads nor updates the trial
\* ledger and sends no request upstream.
C21_InvalidWindowIsAbsence ==
    [][InvalidWindowCall
       => /\ last'.rows = {}
          /\ ~last'.ledgerRead
          /\ ~last'.ledgerWrite
          /\ last'.fetched = 0
          /\ ledger' = ledger]_vars


\* what the caller of bdib gets: the exception raised ("" when none) and the
\* rows of the frame returned
CallerSees(l) == <<l.exc, l.rows>>

\* what the caller gets for a request that has no data: an empty frame
NoDataResult == <<"", {}>>

\* C22 (as claimed): what bdib gives its caller for a ticker it cannot resolve
\* differs from the empty result it gives for a request without data.
C22_ResolutionFailureIsDistinct ==
    (last.op = "bdib" /\ CannotResolve(last.ticker))
       => CallerSees(last) # NoDataResult


(***************************************************************************)
(* io/cache.py: ref_file, the cache file of reference data (BDP/BDS).      *)
(* Override parameters are the keyword arguments of the call, in call      *)
(* order: a sequence of <<key, value>> pairs of strings.  Dates are days   *)
(* of January 2025.                                                        *)
(***************************************************************************)
Str_pkl == <<"p","k","l">>
Str_asof == <<"a","s","o","f","=">>
Str_ovrdNone == <<"o","v","r","d","=","N","o","n","e">>
Str_DVD == <<"D","V","D">>

Key_Ovr == <<"O","v","r">>
Key_raw == <<"r","a","w">>
Key_log == <<"l","o","g">>
Key_cache == <<"c","a","c","h","e">>
Key_has_date == <<"h","a","s","_","d","a","t","e">>
Val_A == <<"A">>
Val_APipeB == <<"A","|","B">>
Val_AUnderB == <<"A","_","B">>
Val_True == <<"T","r","u","e">>

\* overrides.PRSV_COLS: the control parameters that are no overrides
PrsvCols == {Key_raw, Key_log, Key_cache, Key_has_date}

Digit(n) ==
    CASE n = 0 -> "0" [] n = 1 -> "1" [] n = 2 -> "2" [] n = 3 -> "3" [] n = 4 -> "4"
      [] n = 5 -> "5" [] n = 6 -> "6" [] n = 7 -> "7" [] n = 8 -> "8" [] n = 9 -> "9"

\* dt.strftime("%Y-%m-%d") for day d of January 2025
DateStr(d) == <<"2","0","2","5","-","0","1","-", Digit(d \div 10), Digit(d % 10)>>

\* sep.join(parts)
RECURSIVE Join(_, _)
Join(parts, sep) ==
    IF parts = <<>> THEN <<>>
    ELSE IF Len(parts) = 1 THEN parts[1]
    ELSE parts[1] \o sep \o Join(Tail(parts), sep)

IsPublic(pair) == pair[1] = <<>> \/ pair[1][1] # "_"

\* utils.to_str(data): '{k1=v1, k2=v2}' over the keys that do not start with '_'
ToStr(kw) ==
    LET pub == SelectSeq(kw, IsPublic)
    IN <<"{">> \o Join([i \in 1..Len(pub) |-> pub[i][1] \o <<"=">> \o pub[i][2]],
                       <<",", " ">>) \o <<"}">>

NotPreserved(pair) == pair[1] \notin PrsvCols

\* ref_file, io/cache.py 130-131: the digest of the override parameters
RefInfo(kw) ==
    LET ref_kw == SelectSeq(kw, NotPreserved)
        str == ToStr(ref_kw)
    IN IF Len(ref_kw) > 0
       THEN ReplaceAll(SubSeq(str, 2, Len(str) - 1), <<"|">>, <<"_">>)
       ELSE Str_ovrdNone

\* ref_file, io/cache.py 126-128: root = data_path / asset / proper_ticker / fld
RefRoot(root, t, fld) ==
    LET data_path == GetCacheRoot(root)
        info == Split(Chars(t))
        asset == info[Len(info)]
        proper_ticker == ReplaceAll(Chars(t), <<"/">>, <<"_">>)
    IN PathJoin(PathJoin(PathJoin(data_path, asset), proper_ticker), fld)

\* ref_file, io/cache.py 134 and 139: the dated file name under root
RefFileDated(dir, d, info, ext) ==
    PathJoin(dir, Str_asof \o DateStr(d) \o <<",", " ">> \o info \o <<".">> \o ext)

\* the largest element of a non-empty set of days
MaxDay(S) == CHOOSE d \in S : \A e \in S : e <= d

\* a slip: the scan starts one day further back
LookbackDays_OneMore(today, cache_days) ==
    {d \in 1..31 : today - cache_days <= d /\ d <= today}

\* ref_file, io/cache.py 136-137: the dates scanned, today first
LookbackDays(today, cache_days) == {d \in 1..31 : today - cache_days < d /\ d <= today}

\* ref_file with the directory and digest computed, io/cache.py 133-143
RefFileIn(dir, info, has_date, ext, cache_days, today, fs) ==
    IF has_date
    THEN LET found == {d \in LookbackDays(today, cache_days) :
                          Exists(fs, RefFileDated(dir, d, info, ext))}
         IN IF found # {} THEN RefFileDated(dir, MaxDay(found), info, ext)
            ELSE RefFileDated(dir, today, info, ext)
    ELSE PathJoin(dir, info \o <<".">> \o ext)

\* ref_file, io/cache.py 103-143: '' when the cache is not asked for
RefFile(t, fld, has_date, cache, ext, cache_days, kw, root, today, fs) ==
    IF ~cache THEN <<>>
    ELSE RefFileIn(RefRoot(root, t, fld), RefInfo(kw), has_date, ext, cache_days, today, fs)


(***************************************************************************)
(* The reference cache as a state machine: a process calls ref_file and    *)
(* _bds_ for its ticker, files dated on other days are left in the cache   *)
(* directory, the date advances, and BBG_ROOT is set or unset in the       *)
(* environment.  The clock `now` is the current date here (cur_time()).    *)
(***************************************************************************)
MaxFiles == 2      \* reference files in the cache directory at one time

\* the default of cache_days, ref_file io/cache.py 127
DefaultCacheDays == 10

FirstDay == 12
LastDay == 13

\* the dates of the files left by earlier runs or other machines
RefDays == {3, 11, 13}

\* keyword arguments of the calls
Kw_None == <<>>
Kw_Pipe == <<(<<Key_Ovr, Val_APipeB>>)>>
Kw_Under == <<(<<Key_Ovr, Val_AUnderB>>)>>
Kw_A == <<(<<Key_Ovr, Val_A>>)>>
Kw_ARaw == <<(<<Key_Ovr, Val_A>>), (<<Key_raw, Val_True>>)>>

KwSets == {Kw_None, Kw_Pipe, Kw_Under, Kw_A, Kw_ARaw}

RefTickers == {"AAPL US Equity", "/isin/US912810FE39"}

\* the payloads of a reference response: none, or one block
RefResponses == {{}, {1}}

InitRef ==
    /\ bbgRoot \in Roots
    /\ now = FirstDay
    /\ tickers \in {{t} : t \in RefTickers}
    /\ ledger = NoLedger
    /\ files = NoFiles
    /\ last = NoOp
    /\ hist = NoHist
    /\ procs = NoProcs
    /\ InitProcess

\* ref_file(ticker, fld, has_date, cache, ext='pkl', cache_days=..., **kw)
RefFileCall(t, has_date, cache, cache_days, kw) ==
    /\ last.op = "none"
    /\ last' = [op |-> "ref_file", ticker |-> t, has_date |-> has_date,
                cache |-> cache, cache_days |-> cache_days, kw |-> kw,
                path |-> RefFile(t, Str_DVD, has_date, cache, Str_pkl, cache_days, kw,
                                 bbgRoot, now, files),
                logged |-> cache /\ GetCacheRootLogs(bbgRoot, defaultCacheLogged)]
    /\ GetCacheRootCalled(cache)
    /\ UNCHANGED <<bbgRoot, now, ledger, files, tickers, hist, procs, connVars, gen>>

\* bar_file(ticker, dt, typ='TRADE')
BarFileCall(t) ==
    /\ last.op = "none"
    /\ last' = [op |-> "bar_file", ticker |-> t, path |-> BarFile(bbgRoot, t),
                logged |-> GetCacheRootLogs(bbgRoot, defaultCacheLogged)]
    /\ GetCacheRootCalled(TRUE)
    /\ UNCHANGED <<bbgRoot, now, ledger, files, tickers, hist, procs, connVars, gen>>

\* get_cache_root()
GetCacheRootCall ==
    /\ last.op = "none"
    /\ last' = [op |-> "get_cache_root", path |-> GetCacheRoot(bbgRoot),
                root |-> bbgRoot,
                logged |-> GetCacheRootLogs(bbgRoot, defaultCacheLogged)]
    /\ GetCacheRootCalled(TRUE)
    /\ UNCHANGED <<bbgRoot, now, ledger, files, tickers, hist, procs, connVars, gen>>

\* _bds_ with the path of its data file computed, blp.py 125-155: what it
\* returns and the files afterwards
BdsWith(data_file, raw, resp, fs) ==
    IF Exists(fs, data_file)
    THEN [outcome |-> "cached", rows |-> fs[data_file], fetched |-> 0, files |-> fs]
    ELSE IF raw
    THEN [outcome |-> "raw", rows |-> resp, fetched |-> 1, files |-> fs]
    ELSE IF resp = {}
    THEN [outcome |-> "empty", rows |-> {}, fetched |-> 1, files |-> fs]
    ELSE [outcome |-> "data", rows |-> resp, fetched |-> 1,
          files |-> IF data_file # <<>> THEN WriteFile(fs, data_file, resp) ELSE fs]

\* has_date of _bds_, blp.py 123: True unless the caller gave it
BdsHasDate(given) == IF given = "unset" THEN TRUE ELSE given = "yes"

\* what a _bds_ call leaves behind
BdsReturns(r, t, given, cache, raw, kw, data_file) ==
    /\ files' = r.files
    /\ last' = [op |-> "bds", ticker |-> t, has_date |-> BdsHasDate(given),
                cache |-> cache, raw |-> raw, kw |-> kw, path |-> data_file,
                outcome |-> r.outcome, rows |-> r.rows, fetched |-> r.fetched]

\* _bds_(ticker, fld, has_date=..., cache=..., raw=..., **kw), blp.py 115-157
Bds(t, given, cache, raw, kw, resp) ==
    /\ last.op = "none"
    /\ Cardinality(DOMAIN files) < MaxFiles
    /\ BdsReturns(BdsWith(RefFile(t, Str_DVD, BdsHasDate(given), cache, Str_pkl,
                                  DefaultCacheDays, kw, bbgRoot, now, files),
                          raw, resp, files),
                  t, given, cache, raw, kw,
                  RefFile(t, Str_DVD, BdsHasDate(given), cache, Str_pkl,
                          DefaultCacheDays, kw, bbgRoot, now, files))
    /\ GetCacheRootCalled(cache)
    /\ UNCHANGED <<bbgRoot, now, ledger, tickers, hist, procs, connVars, gen>>

\* a dated file of the ticker is in the cache directory from an earlier run
\* or from a machine with another clock
PutRefFile(t, d, kw) ==
    /\ last.op = "none"
    /\ Cardinality(DOMAIN files) < MaxFiles
    /\ files' = WriteFile(files, RefFileDated(RefRoot(bbgRoot, t, Str_DVD), d,
                                              RefInfo(kw), Str_pkl), {1})
    /\ UNCHANGED <<bbgRoot, now, ledger, tickers, last, hist, procs, logVars, connVars, gen>>

\* the date changes (between operations)
TickDay ==
    /\ last.op = "none"
    /\ now < LastDay
    /\ now' = now + 1
    /\ UNCHANGED <<bbgRoot, ledger, files, tickers, last, hist, procs, logVars, connVars, gen>>

\* os.environ: BBG_ROOT is set or removed by the process
SetEnv(root) ==
    /\ last.op = "none"
    /\ root # bbgRoot
    /\ bbgRoot' = root
    /\ UNCHANGED <<now, ledger, files, tickers, last, hist, procs, logVars, connVars, gen>>

NextRef ==
    \/ \E t \in tickers, has_date \in BOOLEAN, cache \in BOOLEAN,
          cache_days \in {DefaultCacheDays, 2}, kw \in KwSets :
          RefFileCall(t, has_date, cache, cache_days, kw)
    \/ GetCacheRootCall
    \/ \E t \in tickers : BarFileCall(t)
    \/ \E t \in tickers, given \in {"unset", "yes", "no"}, cache \in BOOLEAN,
          raw \in BOOLEAN, kw \in {Kw_None, Kw_Pipe}, resp \in RefResponses :
          Bds(t, given, cache, raw, kw, resp)
    \/ \E t \in tickers, d \in RefDays, kw \in {Kw_None} : PutRefFile(t, d, kw)
    \/ TickDay
    \/ \E root \in Roots : SetEnv(root)
    \/ Return

SpecRef == InitRef /\ [][NextRef]_vars


\* the path lies below the cache root
BelowRoot(path, root) == StartsWith(path, GetCacheRoot(root) \o <<"/">>)

\* C23 (as claimed): for every ticker the bar cache path and the reference
\* cache path lie below the cache root.
C23_PathsBelowRoot ==
    (last.op \in {"bar_file", "ref_file", "bds"} /\ last.path # <<>>)
       => BelowRoot(last.path, bbgRoot)

\* the override parameters of a call: its keyword arguments without the
\* control parameters
OverridesOf(kw) == {kw[i] : i \in {j \in 1..Len(kw) : kw[j][1] \notin PrsvCols}}

\* C24 (as claimed): for the ticker and field of a ref_file call, a request
\* with a different set of override parameters maps to a different file.
C24_NoCollision ==
    (last.op = "ref_file" /\ last.cache)
       => \A kw \in KwSets :
             OverridesOf(kw) # OverridesOf(last.kw)
                => RefFile(last.ticker, Str_DVD, last.has_date, TRUE, Str_pkl,
                           last.cache_days, kw, bbgRoot, now, files) # last.path


\* the dated file of the last ref_file call for day d
DatedOfLast(d) ==
    RefFileDated(RefRoot(bbgRoot, last.ticker, Str_DVD), d, RefInfo(last.kw), Str_pkl)

\* a dated-mode lookup was made with the cache asked for
DatedLookup == last.op = "ref_file" /\ last.has_date /\ last.cache

\* C25: in dated mode ref_file returns the path of the most recent date d with
\* today - cache_days < d <= today for which the file exists, and the path
\* dated today when no date of that window has a file; a file dated earlier
\* or later than the window is never selected.
C25_DatedLookup ==
    DatedLookup
       => \E d \in 1..31 :
             /\ last.path = DatedOfLast(d)
             /\ now - last.cache_days < d /\ d <= now
             /\ \A e \in (d + 1)..now : ~Exists(files, DatedOfLast(e))
             /\ Exists(files, DatedOfLast(d))
                   \/ (d = now /\ \A e \in 1..31 :
                          (now - last.cache_days < e /\ e <= now)
                             => ~Exists(files, DatedOfLast(e)))

\* a lookup on the 13th with the default window finds the file of the 11th
\* while files dated the 3rd (older than the window) exist as well
C25_Witness ==
    /\ DatedLookup
    /\ now = 13
    /\ last.cache_days = DefaultCacheDays
    /\ Exists(files, DatedOfLast(3))
    /\ Exists(files, DatedOfLast(11))
    /\ last.path = DatedOfLast(11)


\* an operation that calls get_cache_root has just run
RootLookup ==
    \/ last.op \in {"get_cache_root", "bar_file"}
    \/ last.op = "ref_file" /\ last.cache

\* C26: get_cache_root returns the value of BBG_ROOT when it is set and logs
\* no fallback message then; when it is unset it returns a non-empty default
\* path; and over all the calls of the process the fallback INFO message is
\* logged at most once, namely by the first call made with BBG_ROOT unset.
C26_CacheRootResolution ==
    /\ infoLogs <= 1
    /\ infoLogs = (IF defaultCacheLogged THEN 1 ELSE 0)
    /\ RootLookup => (last.logged => bbgRoot = RootUnset)
    /\ last.op = "get_cache_root"
          => /\ last.path # <<>>
             /\ bbgRoot # RootUnset => last.path = bbgRoot
             /\ bbgRoot = RootUnset => defaultCacheLogged

\* a call with BBG_ROOT unset that logs nothing, the message having been logged
\* by an earlier call
C26_Witness ==
    /\ last.op = "get_cache_root"
    /\ bbgRoot = RootUnset
    /\ ~last.logged
    /\ infoLogs = 1


(***************************************************************************)
(* bdib with composite session expressions.                                *)
(***************************************************************************)
\* the bars the upstream holds around the edges of the day session
EdgeResponses == {{}, {570, 599, 600}, {929, 930, 960}}

NextSess ==
    \/ \E t \in tickers, session \in CompositeSessions \cup {"day"},
          cache \in BOOLEAN, reload \in BOOLEAN, current \in BOOLEAN,
          resp \in EdgeResponses :
          \E pmc \in PmcFor(t) :
             Bdib(t, session, cache, reload, FALSE, pmc, current, resp)
    \/ \E t \in tickers, c \in 0..MaxCnt : ResetTrials(t, c)
    \/ Return
    \/ Tick

SpecSess == Init /\ [][NextSess]_vars

\* the bar stamped b lies in the half-open window [w.s, w.e)
InHalfOpen(b, w) == w.s <= b /\ b < w.e

\* C27: a composite session expression '<base>_open_<minutes>' stands for the
\* window [start, start+minutes) of the base session [start, end] and
\* '<base>_close_<minutes>' for [end-minutes, end): every bar bdib returns for
\* such a session lies in that half-open window (day_open_30 on a 09:30-16:00
\* day session gives 09:30-10:00, the bar stamped 10:00 excluded).
C27_CompositeWindow ==
    (/\ last.op = "bdib"
     /\ last.exc = ""
     /\ last.session \in CompositeSessions
     /\ IsValid(TimeRange(last.ticker, last.session)))
    => LET x == SessionExpr(last.session)
           base == TimeRange(last.ticker, x.base)
           w == IF x.edge = "open"
                THEN [s |-> base.s, e |-> base.s + x.minutes]
                ELSE [s |-> base.e - x.minutes, e |-> base.e]
       IN \A b \in last.rows : InHalfOpen(b, w)


\* the country code the ticker shows: the two characters after '/isin/', or
\* the first two characters of the first token of a bond-suffixed ticker that
\* starts with two letters
ShownCountry(t) ==
    LET c == Chars(t)
        t_info == Split(c)
    IN IF StartsWith(c, Str_isin)
       THEN Upper(Prefix(ReplaceAll(c, Str_isin, <<>>), 2))
       ELSE IF /\ Len(t_info) > 0
               /\ t_info[Len(t_info)] \in BondSuffixes
               /\ Len(t_info[1]) >= 2
               /\ IsAlpha(Prefix(t_info[1], 2))
       THEN Upper(Prefix(t_info[1], 2))
       ELSE NoCountry

\* C28: for an ISIN identifier and for a bond-suffixed ticker whose first token
\* starts with a 2-letter country code, the default exchange info bdib works
\* with carries the time zone the static table maps that country to
\* (GB -> Europe/London), and the full-day session 00:00-23:59 when no calendar
\* boundaries apply.
C28_DefaultTimeZone ==
    (/\ last.op = "bdib"
     /\ last.strategy = "FixedIncomeDefaultResolver"
     /\ Len(ShownCountry(last.ticker)) = 2)
    => /\ last.tz = TzMap(ShownCountry(last.ticker), "America/New_York")
       /\ GetDefaultExchangeInfo(last.ticker, last.session, "unavailable").info
             = DefaultInfo(TzMap(ShownCountry(last.ticker), "America/New_York"), FullDay)


(***************************************************************************)
(* core/infra/conn.py: the sessions registered per port.                   *)
(***************************************************************************)
\* conn.py _PORT_
DefaultPort == 8194

\* the next blpapi.Session object
NewSessionId(objs) == Cardinality(objs) + 1

\* a slip: the session is registered before it is started
BbgSessionRun_RegistersFirst(port, sess, started, con, live, objs) ==
    LET con1 == IF con[port] # NoSession /\ con[port] \notin live
                THEN [con EXCEPT ![port] = NoSession] ELSE con
        session == IF sess # NoSession THEN sess ELSE NewSessionId(objs)
    IN IF con1[port] # NoSession
       THEN [xcon |-> con1, handles |-> live, made |-> objs, ret |-> con1[port], exc |-> ""]
       ELSE [xcon |-> [con1 EXCEPT ![port] = session], handles |-> live \cup {session},
             made |-> objs \cup {session},
             ret |-> IF started THEN session ELSE NoSession,
             exc |-> IF started THEN "" ELSE "ConnectionError"]

\* bbg_session(port=port, sess=sess), conn.py 145-167, with connect_bbg,
\* conn.py 104-142: a registered session whose handle is gone is dropped; when
\* none is registered, connect_bbg starts the session passed in (or a new one)
\* and it is registered, or ConnectionError is raised; the registered session
\* is returned.  started is the answer of session.start().
BbgSessionRun(port, sess, started, con, live, objs) ==
    LET con1 == IF con[port] # NoSession /\ con[port] \notin live
                THEN [con EXCEPT ![port] = NoSession] ELSE con
        session == IF sess # NoSession THEN sess ELSE NewSessionId(objs)
    IN IF con1[port] # NoSession
       THEN [xcon |-> con1, handles |-> live, made |-> objs, ret |-> con1[port], exc |-> ""]
       ELSE IF started
       THEN [xcon |-> [con1 EXCEPT ![port] = session], handles |-> live \cup {session},
             made |-> objs \cup {session}, ret |-> session, exc |-> ""]
       ELSE [xcon |-> con1, handles |-> live \cup {session},
             made |-> objs \cup {session}, ret |-> NoSession, exc |-> "ConnectionError"]

\* what a call leaves behind: the registry, the sessions, and the record of the
\* call with what it returned
ConnReturns(r, op, port, sess) ==
    /\ xcon' = r.xcon
    /\ handles' = r.handles
    /\ made' = r.made
    /\ last' = [op |-> op, port |-> port, sess |-> sess, ret |-> r.ret, exc |-> r.exc]
    /\ UNCHANGED <<bbgRoot, now, ledger, files, tickers, hist, procs, logVars, gen>>

\* the caller creates a session of its own, blpapi.Session(...)
NewSession ==
    /\ Cardinality(made) < MaxSessions
    /\ made' = made \cup {NewSessionId(made)}
    /\ handles' = handles \cup {NewSessionId(made)}
    /\ last' = [op |-> "new_session", port |-> DefaultPort, sess |-> NoSession,
                ret |-> NewSessionId(made), exc |-> ""]
    /\ UNCHANGED <<bbgRoot, now, ledger, files, tickers, hist, procs, logVars, xcon, gen>>

\* connect(sess=sess), conn.py 59-60: bbg_session(sess=sess), for the default port
ConnectSess(sess, started) ==
    /\ sess \in handles
    /\ ConnReturns(BbgSessionRun(DefaultPort, sess, started, xcon, handles, made),
                   "connect", DefaultPort, sess)

\* connect() without sess, conn.py 62-101: a session built from the options
\* is handed to bbg_session, for the default port
ConnectOpts(started) ==
    /\ Cardinality(made) < MaxSessions
    /\ ConnReturns(BbgSessionRun(DefaultPort, NewSessionId(made), started, xcon,
                                 handles \cup {NewSessionId(made)},
                                 made \cup {NewSessionId(made)}),
                   "connect", DefaultPort, NoSession)

\* bbg_session(port=port), as bbg_service and send_request call it
BbgSession(port, started) ==
    /\ Cardinality(made) < MaxSessions
          \/ (xcon[port] # NoSession /\ xcon[port] \in handles)
    /\ ConnReturns(BbgSessionRun(port, NoSession, started, xcon, handles, made),
                   "bbg_session", port, NoSession)

\* a session is destroyed (session.destroy(), or the connection is torn
\* down): its handle is gone
Destroy(sess) ==
    /\ sess \in handles
    /\ handles' = handles \ {sess}
    /\ last' = [op |-> "destroy", port |-> DefaultPort, sess |-> sess,
                ret |-> NoSession, exc |-> ""]
    /\ UNCHANGED <<bbgRoot, now, ledger, files, tickers, hist, procs, logVars, xcon, made, gen>>

\* what sess.sendRequest can do
SendOutcomes == {"ok", "InvalidStateException"}

\* the event queue and the correlation id of a call, conn.py 226-227: the
\* ones the caller passed, or ones made for the call
RequestIds == [event_queue : {"passed", "made"}, correlation_id : {"passed", "made"}]

\* one sess.sendRequest(request, eventQueue, correlationId)
Sending(sess, ids) ==
    [sess |-> sess, event_queue |-> ids.event_queue, correlation_id |-> ids.correlation_id]

\* a slip: the request is not sent again after InvalidStateException
SendAgain_NoResend(r2, first, out2, ids) ==
    [xcon |-> r2.xcon, handles |-> r2.handles, made |-> r2.made, ret |-> r2.ret,
     exc |-> r2.exc, sent |-> <<Sending(first, ids)>>]

\* send_request after InvalidStateException, conn.py 250-251: r2 is the
\* answer of the second bbg_session call, first the session of the first send
SendAgain(r2, first, out2, ids) ==
    [xcon |-> r2.xcon, handles |-> r2.handles, made |-> r2.made, ret |-> r2.ret,
     exc |-> IF r2.exc # "" THEN r2.exc ELSE IF out2 = "ok" THEN "" ELSE out2,
     sent |-> IF r2.exc # "" THEN <<Sending(first, ids)>>
              ELSE <<Sending(first, ids), Sending(r2.ret, ids)>>]

\* send_request from its first sendRequest on, conn.py 229-251: r1 is the
\* answer of the first bbg_session call
SendFirst(r1, port, out1, started2, out2, ids) ==
    IF r1.exc # ""
    THEN [xcon |-> r1.xcon, handles |-> r1.handles, made |-> r1.made, ret |-> r1.ret,
          exc |-> r1.exc, sent |-> <<>>]
    ELSE IF out1 = "ok"
    THEN [xcon |-> r1.xcon, handles |-> r1.handles, made |-> r1.made, ret |-> r1.ret,
          exc |-> "", sent |-> <<Sending(r1.ret, ids)>>]
    ELSE SendAgain(BbgSessionRun(port, NoSession, started2,
                                 [r1.xcon EXCEPT ![port] = NoSession],
                                 r1.handles, r1.made),
                   r1.ret, out2, ids)

\* send_request(request, port=port), conn.py 210-254
SendRequestRun(port, started1, out1, started2, out2, ids, con, live, objs) ==
    SendFirst(BbgSessionRun(port, NoSession, started1, con, live, objs),
              port, out1, started2, out2, ids)

\* what a send_request call leaves behind
SendReturns(r, port, out1, ids) ==
    /\ Cardinality(r.made) <= MaxSessions
    /\ xcon' = r.xcon
    /\ handles' = r.handles
    /\ made' = r.made
    /\ last' = [op |-> "send_request", port |-> port, sess |-> NoSession,
                ret |-> r.ret, exc |-> r.exc, sent |-> r.sent, first |-> out1,
                ids |-> ids, was |-> xcon[port]]
    /\ UNCHANGED <<bbgRoot, now, ledger, files, tickers, hist, procs, logVars, gen>>

SendRequest(port, started1, out1, started2, out2, ids) ==
    SendReturns(SendRequestRun(port, started1, out1, started2, out2, ids,
                               xcon, handles, made),
                port, out1, ids)

InitConn ==
    /\ bbgRoot = RootUnset
    /\ now \in OrchInstants
    /\ tickers = {"AAPL US Equity"}
    /\ ledger = NoLedger
    /\ files = NoFiles
    /\ last = NoOp
    /\ hist = NoHist
    /\ procs = NoProcs
    /\ InitProcess

NextConn ==
    \/ NewSession
    \/ \E sess \in made, started \in BOOLEAN : ConnectSess(sess, started)
    \/ \E started \in BOOLEAN : ConnectOpts(started)
    \/ \E port \in Ports, started \in BOOLEAN : BbgSession(port, started)
    \/ \E sess \in made : Destroy(sess)
    \/ \E port \in Ports, started1 \in BOOLEAN, out1 \in SendOutcomes,
          started2 \in BOOLEAN, out2 \in SendOutcomes, ids \in RequestIds :
          SendRequest(port, started1, out1, started2, out2, ids)

SpecConn == InitConn /\ [][NextConn]_vars

\* C29: when connect is called with an existing session object via sess, the
\* session it returns is that same session, whatever connect or bbg_session
\* calls were made for the port before.
C29_ConnectReturnsPassedSession ==
    (last.op = "connect" /\ last.sess # NoSession /\ last.exc = "")
       => last.ret = last.sess


(***************************************************************************)
(* blp.py live(): the subscription generator.  The handler thread puts     *)
(* data points on a queue; the generator takes one per iteration, yields   *)
(* it and counts it when max_cnt is set.                                   *)
(***************************************************************************)
\* live(tickers, max_cnt=max_cnt): the generator object; its body has not run
LiveCall(max_cnt) ==
    /\ gen.pc = "none"
    /\ gen' = [NoGen EXCEPT !.pc = "created", !.max_cnt = max_cnt]
    /\ last' = [op |-> "live", max_cnt |-> max_cnt]
    /\ UNCHANGED <<bbgRoot, now, ledger, files, tickers, hist, procs, logVars, connVars>>

\* the loop test of live, blp.py 1054
LiveContinues(max_cnt, cnt) == max_cnt = 0 \/ cnt <= max_cnt

\* the consumer asks for the next item.  The first time the body starts the
\* session (ConnectionError when it does not start, blp.py 1034-1036) and
\* subscribes (blp.py 1052-1053); later it resumes after the yield and counts
\* the item (blp.py 1057-1058).  Then the loop test: the generator waits for
\* the queue, or leaves the loop, unsubscribes and stops (blp.py 1061-1065).
LiveResume(started) ==
    /\ gen.pc \in {"created", "yielded"}
    /\ gen.pc = "yielded" => started
    /\ LET cnt == IF gen.pc = "yielded" /\ gen.max_cnt # 0 THEN gen.cnt + 1 ELSE gen.cnt
       IN gen' = IF ~started THEN [gen EXCEPT !.pc = "failed"]
                 ELSE IF LiveContinues(gen.max_cnt, cnt)
                 THEN [gen EXCEPT !.pc = "waiting", !.cnt = cnt, !.subscribed = TRUE]
                 ELSE [gen EXCEPT !.pc = "done", !.cnt = cnt, !.subscribed = FALSE]
    /\ last' = [op |-> "anext", max_cnt |-> gen.max_cnt]
    /\ UNCHANGED <<bbgRoot, now, ledger, files, tickers, hist, procs, logVars, connVars>>

\* the handler thread receives subscription data and queues a data point,
\* blp.py 1009-1019
HandlerPut ==
    /\ gen.subscribed
    /\ gen.queued < MaxQueue
    /\ gen' = [gen EXCEPT !.queued = @ + 1]
    /\ UNCHANGED <<bbgRoot, now, ledger, files, tickers, last, hist, procs, logVars, connVars>>

\* outq.get returns and the item is yielded, blp.py 1055-1056
LiveYield ==
    /\ gen.pc = "waiting"
    /\ gen.queued > 0
    /\ gen.yielded < MaxYield
    /\ gen' = [gen EXCEPT !.pc = "yielded", !.queued = @ - 1, !.yielded = @ + 1]
    /\ last' = [op |-> "yield", max_cnt |-> gen.max_cnt]
    /\ UNCHANGED <<bbgRoot, now, ledger, files, tickers, hist, procs, logVars, connVars>>

\* the consumer closes the generator (or its task is cancelled): the finally
\* clause unsubscribes and stops the session, blp.py 1061-1065
LiveClose ==
    /\ gen.pc \in {"waiting", "yielded"}
    /\ gen' = [gen EXCEPT !.pc = "closed", !.subscribed = FALSE]
    /\ last' = [op |-> "aclose", max_cnt |-> gen.max_cnt]
    /\ UNCHANGED <<bbgRoot, now, ledger, files, tickers, hist, procs, logVars, connVars>>

NextLive ==
    \/ \E max_cnt \in 0..MaxLiveCnt : LiveCall(max_cnt)
    \/ \E started \in BOOLEAN : LiveResume(started)
    \/ HandlerPut
    \/ LiveYield
    \/ LiveClose

SpecLive == InitConn /\ [][NextLive]_vars

\* C30: when max_cnt > 0 the live generator yields at most max_cnt data points
\* before it terminates, and once it has terminated its subscription is
\* released.
C30_LiveYieldsAtMostMaxCnt ==
    /\ gen.max_cnt > 0 => gen.yielded <= gen.max_cnt
    /\ gen.pc \in {"done", "closed"} => ~gen.subscribed


(***************************************************************************)
(* io/cached.py: which ticker/field pairs of a bdp or bds call are cached. *)
(***************************************************************************)
Str_PX == <<"P","X">>

QryTickers == {<<"AAPL US Equity">>, <<"ES1 Index">>, <<"AAPL US Equity", "ES1 Index">>}
QryFlds == {<<Str_DVD>>, <<Str_PX>>, <<Str_DVD, Str_PX>>}

\* the elements of a list
Elems(s) == {s[i] : i \in 1..Len(s)}

\* has_date of bdp_bds_cache, cached.py 36
QryHasDate(func) == func = "bds"

\* storage.ref_file(ticker=ticker, fld=fld, ext='pkl', ...), cached.py 44-48
QryFile(func, t, fld, cache, root, today, fs) ==
    RefFile(t, fld, QryHasDate(func), cache, Str_pkl, DefaultCacheDays, Kw_None,
            root, today, fs)

\* loaded.loc[ticker, fld] == 1, cached.py 49-54
QryLoaded(func, t, fld, cache, root, today, fs) ==
    Exists(fs, QryFile(func, t, fld, cache, root, today, fs))

\* product(tickers, flds), cached.py 43
Product(tks, flds) ==
    [k \in 1..(Len(tks) * Len(flds)) |->
        <<tks[((k - 1) \div Len(flds)) + 1], flds[((k - 1) % Len(flds)) + 1]>>]

\* bdp_bds_cache, cached.py 22-72: the files read, in the order of the
\* product, and the rows and columns of `loaded` that keep a 0 after
\* dropna(how='all') on the columns and then on the rows
BdpBdsCache(func, tks, flds, cache, root, today, fs) ==
    LET ret_flds == SelectSeq(flds, LAMBDA f :
                       \E t \in Elems(tks) : ~QryLoaded(func, t, f, cache, root, today, fs))
    IN [tickers |-> SelectSeq(tks, LAMBDA t :
                       \E f \in Elems(ret_flds) :
                          ~QryLoaded(func, t, f, cache, root, today, fs)),
        flds |-> ret_flds,
        cached_data |-> SelectSeq(Product(tks, flds), LAMBDA p :
                           QryLoaded(func, p[1], p[2], cache, root, today, fs))]

\* what a bdp_bds_cache call leaves behind
QryReturns(r, func, tks, flds, cache) ==
    /\ last' = [op |-> "bdp_bds_cache", func |-> func, req_tickers |-> tks,
                req_flds |-> flds, cache |-> cache, tickers |-> r.tickers,
                flds |-> r.flds, cached_data |-> r.cached_data]
    /\ GetCacheRootCalled(cache)
    /\ UNCHANGED <<bbgRoot, now, ledger, files, tickers, hist, procs, connVars, gen>>

BdpBdsCacheCall(func, tks, flds, cache) ==
    /\ last.op = "none"
    /\ QryReturns(BdpBdsCache(func, tks, flds, cache, bbgRoot, now, files),
                  func, tks, flds, cache)

\* an earlier bdp or bds call has saved its result for the pair
SavePair(func, t, fld) ==
    /\ last.op = "none"
    /\ ~QryLoaded(func, t, fld, TRUE, bbgRoot, now, files)
    /\ files' = WriteFile(files, QryFile(func, t, fld, TRUE, bbgRoot, now, files), {1})
    /\ UNCHANGED <<bbgRoot, now, ledger, tickers, last, hist, procs, logVars, connVars, gen>>

InitQry ==
    /\ bbgRoot \in Roots
    /\ now = FirstDay
    /\ tickers = {"AAPL US Equity", "ES1 Index"}
    /\ ledger = NoLedger
    /\ files = NoFiles
    /\ last = NoOp
    /\ hist = NoHist
    /\ procs = NoProcs
    /\ InitProcess

NextQry ==
    \/ \E func \in {"bdp", "bds"}, tks \in QryTickers, flds \in QryFlds, cache \in BOOLEAN :
          BdpBdsCacheCall(func, tks, flds, cache)
    \/ \E func \in {"bdp", "bds"}, t \in tickers, fld \in {Str_DVD, Str_PX} :
          SavePair(func, t, fld)
    \/ Return

SpecQry == InitQry /\ [][NextQry]_vars

\* the pairs of the request last made whose cache file exists
CachedPairs ==
    {p \in Elems(last.req_tickers) \X Elems(last.req_flds) :
        QryLoaded(last.func, p[1], p[2], last.cache, bbgRoot, now, files)}

\* C31: bdp_bds_cache partitions the requested ticker x field pairs:
\* cached_data holds exactly one payload for each pair whose cache file
\* exists, a pair belongs to the to-query set (returned tickers x returned
\* flds) exactly when no cache file exists for it, and when every pair is
\* cached both returned lists are empty.
C31_PairsPartitioned ==
    last.op = "bdp_bds_cache"
       => /\ Len(last.cached_data) = Cardinality(CachedPairs)
          /\ Elems(last.cached_data) = CachedPairs
          /\ \A p \in Elems(last.req_tickers) \X Elems(last.req_flds) :
                (p[1] \in Elems(last.tickers) /\ p[2] \in Elems(last.flds))
                   <=> p \notin CachedPairs
          /\ CachedPairs = Elems(last.req_tickers) \X Elems(last.req_flds)
                => last.tickers = <<>> /\ last.flds = <<>>


(***************************************************************************)
(* A run of bdib calls for one key against an upstream that has no bars.   *)
(***************************************************************************)
NoRun == [calls |-> 0, fetches |-> 0]

\* the tickers bdib finds exchange info and a query ticker for
Resolvable(t) ==
    /\ BdibExchInfo(t, "allday", "unavailable").exc = ""
    /\ ResolveBdibTicker(t, BdibExchInfo(t, "allday", "unavailable").info)[2]

InitRetry ==
    /\ bbgRoot = RootDir
    /\ now \in OrchInstants
    /\ tickers \in {{t} : t \in Tickers}
    /\ ledger \in {NoLedger} \cup {OtherRow(t) : t \in tickers}
    /\ files = NoFiles
    /\ last = NoOp
    /\ hist = NoRun
    /\ procs = NoProcs
    /\ InitProcess

\* bdib(ticker, dt, session, ...) for a date that is not in the future, the
\* upstream returning no bars
RetryCall(t, session, cache, reload, batch, pmc) ==
    /\ last.op = "none"
    /\ hist.calls < MaxCalls
    /\ BdibReturns(BdibRun(t, session, cache, reload, batch, pmc, TRUE, {},
                           bbgRoot, now, ledger, files),
                   t, session, cache, reload, batch, pmc)
    /\ GetCacheRootCalled(BdibExchInfo(t, session, pmc).exc = "")
    /\ hist' = [calls |-> hist.calls + 1, fetches |-> hist.fetches + last'.fetched]
    /\ UNCHANGED <<bbgRoot, now, tickers, procs, connVars, gen>>

NextRetry ==
    \/ \E t \in tickers, session \in Sessions, cache \in BOOLEAN, reload \in BOOLEAN,
          batch \in BOOLEAN :
          \E pmc \in PmcFor(t) : RetryCall(t, session, cache, reload, batch, pmc)
    \/ Return
    \/ Tick

SpecRetry == InitRetry /\ [][NextRetry]_vars

\* the smaller of two numbers
Min(a, b) == IF a < b THEN a ELSE b

\* C32: in a sequential run of bdib calls for one key, with a configured root,
\* no cache file and an upstream that always returns empty, the ledger is read
\* before each fetch, each empty response raises the count by exactly one (the
\* count equals the number of fetches), exactly the first two calls issue a
\* fetch and every later call returns empty without fetching.  The run is one
\* of a ticker bdib resolves.
C32_BoundedRetries ==
    \A t \in tickers :
       Resolvable(t)
          => /\ hist.fetches = Min(hist.calls, 2)
             /\ NumTrials(bbgRoot, ledger, TrialKey("bdib", t)) = hist.fetches
             /\ last.op = "bdib"
                   => /\ last.rows = {}
                      /\ last.fetched = 1 => last.ledgerRead
                      /\ last.fetched = (IF hist.calls <= 2 THEN 1 ELSE 0)

\* the fourth call of a run: two fetches were made, this call made none
C32_Witness ==
    /\ hist = [calls |-> 4, fetches |-> 2]
    /\ last.op = "bdib"
    /\ last.outcome = "trial_exceeded"
    /\ last.fetched = 0
    /\ \A t \in tickers : Resolvable(t)


\* the stored count of a key
StoredCount(led, k) == IF k \in DOMAIN led THEN led[k] ELSE 0

\* C33: bdib never lowers a trial count.  A bdib call changes the ledger only
\* when the upstream response is empty, and then only the row of its own key,
\* to the count it read plus one; a cache hit, a threshold short-circuit, a
\* resolution failure and a fetch that returns bars leave the ledger as it was.
C33_CountOnlyRaisedOnEmpty ==
    [][(last.op = "none" /\ last'.op = "bdib")
          => /\ \A k \in DOMAIN ledger \cup DOMAIN ledger' :
                   StoredCount(ledger', k) >= StoredCount(ledger, k)
             /\ last'.outcome # "no_data" => ledger' = ledger
             /\ ledger' # ledger
                   => /\ last'.ledgerRead
                      /\ DOMAIN ledger' = DOMAIN ledger \cup {TrialKey("bdib", last'.ticker)}
                      /\ \A k \in DOMAIN ledger' :
                            StoredCount(ledger', k) =
                               IF k = TrialKey("bdib", last'.ticker)
                               THEN StoredCount(ledger, k) + 1
                               ELSE StoredCount(ledger, k)]_vars

\* a fetch returned bars for a key that had one failed attempt: the count is
\* still one
C33_Witness ==
    /\ last.op = "bdib"
    /\ last.outcome = "data"
    /\ last.fetched = 1
    /\ StoredCount(ledger, TrialKey("bdib", last.ticker)) = 1


\* C34: for a generic futures ticker that the roll lookup resolves to a dated
\* contract, the security named in the intraday-bar request sent upstream is
\* the resolved contract ticker, not the generic ticker.
C34_ResolvedTickerGoesUpstream ==
    (/\ last.op = "bdib"
     /\ last.fetched = 1
     /\ last.strategy = "FuturesRollResolver")
    => /\ last.sent = last.q_tckr
       /\ last.sent # last.ticker


\* the bar stamped b lies in the window w
InWindow(b, w) == w.s <= b /\ b <= w.e

\* C35: every bar cache entry a bdib request persists contains only rows
\* inside the session window the request was resolved for; the entry never
\* covers more than that window.
C35_CacheWithinWindow ==
    [][(last.op = "none" /\ last'.op = "bdib"
           /\ IsValid(TimeRange(last'.ticker, last'.session)))
          => \A p \in DOMAIN files' :
                (p \notin DOMAIN files \/ files'[p] # files[p])
                   => \A b \in files'[p] :
                         InWindow(b, TimeRange(last'.ticker, last'.session))]_vars


(***************************************************************************)
(* bdib with the bar interval of the request.  The interval and            *)
(* intervalHasSeconds go into the request (blp.py 409-420); bar_file and   *)
(* _load_cached_bdib do not look at them.  hist keeps, for each cache      *)
(* file, the granularity of the request that wrote it, and the             *)
(* granularity of the request made last.                                   *)
(***************************************************************************)
\* interval (minutes, or seconds with intervalHasSeconds) of the requests
Granularities == {1, 5} \X BOOLEAN

NoGranularity == <<0, FALSE>>

InitIvl ==
    /\ bbgRoot \in Roots
    /\ now \in OrchInstants
    /\ tickers \in {{t} : t \in Tickers}
    /\ ledger = NoLedger
    /\ files = NoFiles
    /\ last = NoOp
    /\ hist = [written |-> [p \in {} |-> NoGranularity], asked |-> NoGranularity]
    /\ procs = NoProcs
    /\ InitProcess

\* save_intraday writes the bars of a non-empty response of the ticker
Saves(t, root, nowv) == SaveIntraday({0}, t, root, nowv, NoFiles) # NoFiles

\* bdib(ticker, dt, session, interval=g[1], intervalHasSeconds=g[2], ...)
BdibIvl(t, session, cache, reload, pmc, g, resp) ==
    /\ last.op = "none"
    /\ BdibReturns(BdibRun(t, session, cache, reload, FALSE, pmc, TRUE, resp,
                           bbgRoot, now, ledger, files),
                   t, session, cache, reload, FALSE, pmc)
    /\ GetCacheRootCalled(BdibExchInfo(t, session, pmc).exc = "")
    /\ hist' = [written |-> IF last'.outcome = "data" /\ cache /\ Saves(t, bbgRoot, now)
                             THEN (BarFile(bbgRoot, t) :> g) @@ hist.written
                             ELSE hist.written,
                asked |-> g]
    /\ UNCHANGED <<bbgRoot, now, tickers, procs, connVars, gen>>

NextIvl ==
    \/ \E t \in tickers, session \in {"allday", "day"}, cache \in BOOLEAN,
          reload \in BOOLEAN, g \in Granularities, resp \in Responses :
          \E pmc \in PmcFor(t) : BdibIvl(t, session, cache, reload, pmc, g, resp)
    \/ Return
    \/ Tick

SpecIvl == InitIvl /\ [][NextIvl]_vars

\* C36: a bdib request with bar interval i and intervalHasSeconds setting s is
\* never answered from a cache entry that a request with another interval or
\* seconds setting wrote for the same ticker, date and event type.
C36_CachedGranularityMatches ==
    (last.op = "bdib" /\ last.outcome = "cached")
       => hist.written[BarFile(bbgRoot, last.ticker)] = hist.asked


(***************************************************************************)
(* Repeated bdib requests with caching enabled.  hist keeps the request    *)
(* made last and the one before it, each with what it came to.             *)
(***************************************************************************)
\* the evening of the requested date and the first hour of the next day
LateInstants == {1260, 1500}

NoCall == [ticker |-> "", session |-> "", pmc |-> "", outcome |-> "", ended |-> FALSE]

InitOnce ==
    /\ bbgRoot \in Roots
    /\ now = 1260
    /\ tickers \in {{t} : t \in Tickers}
    /\ ledger = NoLedger
    /\ files = NoFiles
    /\ last = NoOp
    /\ hist = [prev |-> NoCall, cur |-> NoCall]
    /\ procs = NoProcs
    /\ InitProcess

\* the 'allday' session of the exchange info bdib works with ended more than
\* an hour before nowv
EndedAnHourAgo(t, session, pmc, nowv) ==
    /\ BdibExchInfo(t, session, pmc).exc = ""
    /\ nowv - BdibExchInfo(t, session, pmc).info.sess["allday"][2] > 60

\* bdib(ticker, dt, session) with cache=True and no reload
BdibOnce(t, session, pmc, resp) ==
    /\ last.op = "none"
    /\ BdibReturns(BdibRun(t, session, TRUE, FALSE, FALSE, pmc, TRUE, resp,
                           bbgRoot, now, ledger, files),
                   t, session, TRUE, FALSE, FALSE, pmc)
    /\ GetCacheRootCalled(BdibExchInfo(t, session, pmc).exc = "")
    /\ hist' = [prev |-> hist.cur,
                cur |-> [ticker |-> t, session |-> session, pmc |-> pmc,
                         outcome |-> last'.outcome,
                         ended |-> EndedAnHourAgo(t, session, pmc, now)]]
    /\ UNCHANGED <<bbgRoot, now, tickers, procs, connVars, gen>>

\* the clock advances (between operations)
TickLate ==
    /\ last.op = "none"
    /\ \E n \in LateInstants : n > now /\ now' = n
    /\ UNCHANGED <<bbgRoot, ledger, files, tickers, last, hist, procs, logVars, connVars, gen>>

NextOnce ==
    \/ \E t \in tickers, session \in {"allday", "day"}, resp \in Responses :
          \E pmc \in PmcFor(t) : BdibOnce(t, session, pmc, resp)
    \/ Return
    \/ TickLate

SpecOnce == InitOnce /\ [][NextOnce]_vars

\* C37: for every ticker bdib accepts, fixed-income tickers with default
\* exchange info included, after a non-empty fetch for a session that ended
\* more than one hour before, with caching enabled, a repeated identical
\* request is served from the cache and issues no second external fetch.
C37_FetchOnce ==
    (/\ last.op = "bdib"
     /\ hist.prev.outcome = "data"
     /\ hist.prev.ended
     /\ hist.cur.ticker = hist.prev.ticker
     /\ hist.cur.session = hist.prev.session
     /\ hist.cur.pmc = hist.prev.pmc)
    => /\ last.outcome = "cached"
       /\ last.fetched = 0


\* C38: at most one session is registered for a port; bbg_session returns
\* the registered session, unchanged, while its handle is live, replaces it
\* with a newly started session only when the registered session's handle is
\* gone, and a failed start (ConnectionError) leaves no session registered for
\* the port.
C38_OneSessionPerPort ==
    [][last'.op = "bbg_session"
          => /\ xcon' \in [Ports -> made' \cup {NoSession}]
             /\ (xcon[last'.port] # NoSession /\ xcon[last'.port] \in handles)
                   => /\ last'.ret = xcon[last'.port]
                      /\ xcon' = xcon /\ handles' = handles /\ made' = made
             /\ xcon'[last'.port] # xcon[last'.port]
                   => /\ xcon[last'.port] = NoSession \/ xcon[last'.port] \notin handles
                      /\ xcon'[last'.port] # NoSession
                            => xcon'[last'.port] \in handles' \ made
             /\ last'.exc = "ConnectionError" => xcon'[last'.port] = NoSession
             /\ last'.exc = "" => last'.ret = xcon'[last'.port] /\ last'.ret \in handles'
             /\ \A p \in Ports \ {last'.port} : xcon'[p] = xcon[p]]_vars

\* bbg_session found a registered session without a handle, the start of the
\* new session failed, and nothing is registered for the port
C38_Witness ==
    /\ last.op = "bbg_session"
    /\ last.exc = "ConnectionError"
    /\ xcon[last.port] = NoSession
    /\ made # {}
    /\ \E s \in made : s \notin handles


\* C39: send_request sends the request at most twice.  Without
\* InvalidStateException the request is sent exactly once; with it, the
\* session registered for the port is discarded, a new session is obtained,
\* and the request is sent exactly once more, on the new session, with the
\* same event queue and correlation id; a failure of that second send, or of
\* starting the new session, reaches the caller.
C39_RetryAtMostOnce ==
    (last.op = "send_request" /\ last.sent # <<>>)
       => /\ Len(last.sent) <= 2
          /\ \A i \in 1..Len(last.sent) :
                /\ last.sent[i].event_queue = last.ids.event_queue
                /\ last.sent[i].correlation_id = last.ids.correlation_id
          /\ last.first = "ok"
                => Len(last.sent) = 1 /\ last.exc = "" /\ xcon[last.port] = last.sent[1].sess
          /\ last.first = "InvalidStateException"
                => /\ xcon[last.port] # last.sent[1].sess
                   /\ last.exc = "ConnectionError"
                         <=> (Len(last.sent) = 1 /\ xcon[last.port] = NoSession)
                   /\ last.exc # "ConnectionError"
                         => /\ Len(last.sent) = 2
                            /\ last.sent[2].sess = xcon[last.port]
                            /\ last.sent[2].sess \in handles
                            /\ last.sent[2].sess # last.was
                            /\ last.exc \in {"", "InvalidStateException"}

\* the first send raised InvalidStateException on the session that was
\* registered, and the second send, on a new session, failed as well
C39_Witness ==
    /\ last.op = "send_request"
    /\ last.first = "InvalidStateException"
    /\ last.was # NoSession
    /\ last.sent[1].sess = last.was
    /\ Len(last.sent) = 2
    /\ last.exc = "InvalidStateException"


\* ---------------------------------------------------------------------
\* markets/calendars.py: the exchange-code cache, one JSON file shared by
\* all processes.  In this specification files maps CACHE_FILE to the
\* mapping stored in it, procs holds each process's position in
\* get_bbg_exch_code, and hist the value last persisted for each ticker.

\* CACHE_FILE, calendars.py 20
Str_CacheFile == "markets/cached/bbg_exch_code_cache.json"

\* the tickers looked up
ExchTickers == {"AAPL US Equity", "ES1 Index"}

\* what the upstream lookup finds in the first field that is filled; ""
\* when the answer is empty or every field is blank
ExchCodes == {"US", ""}

\* the empty mapping
NoCodes == [t \in {} |-> ""]

\* _read_json(path), calendars.py 23-32: a missing file and a file that does
\* not parse (one just truncated for writing) both read as the empty mapping
ReadJson(path, fs) == IF path \in DOMAIN fs THEN fs[path] ELSE NoCodes

\* _load_cache(), calendars.py 47-48
LoadCache(fs) == ReadJson(Str_CacheFile, fs)

\* cache[ticker] = val
SetCode(cache, t, val) ==
    [x \in DOMAIN cache \cup {t} |-> IF x = t THEN val ELSE cache[x]]

\* a process outside get_bbg_exch_code
IdleProc == [pc |-> "idle", ticker |-> "", cache |-> NoCodes, val |-> "", known |-> FALSE]

InitExch ==
    /\ bbgRoot = RootDir
    /\ now = FirstDay
    /\ tickers = ExchTickers
    /\ ledger = NoLedger
    /\ files = NoFiles
    /\ last = NoOp
    /\ hist = NoCodes
    /\ procs = [p \in Procs |-> IdleProc]
    /\ InitProcess

\* get_bbg_exch_code(ticker) up to the upstream lookup, calendars.py 71-74:
\* the file is read, and a ticker found in it is returned at once
ExchCall(p, t) ==
    /\ procs[p].pc = "idle"
    /\ IF t \in DOMAIN LoadCache(files)
       THEN /\ last' = [op |-> "get_bbg_exch_code", proc |-> p, ticker |-> t,
                        ret |-> LoadCache(files)[t], upstream |-> FALSE,
                        known |-> t \in DOMAIN hist,
                        persisted |-> IF t \in DOMAIN hist THEN hist[t] ELSE ""]
            /\ UNCHANGED procs
       ELSE /\ procs' = [procs EXCEPT ![p] = [pc |-> "lookup", ticker |-> t,
                                             cache |-> LoadCache(files), val |-> "",
                                             known |-> t \in DOMAIN hist]]
            /\ UNCHANGED last
    /\ UNCHANGED <<bbgRoot, now, ledger, files, tickers, hist, logVars, connVars, gen>>

\* the upstream lookup, calendars.py 81-96: bdp answers or raises, and the
\* code found, or '' when none was found, is put in the mapping read before
ExchLookup(p, code, raised) ==
    /\ procs[p].pc = "lookup"
    /\ procs' = [procs EXCEPT ![p].pc = "save",
                              ![p].val = IF raised THEN "" ELSE code,
                              ![p].cache = SetCode(procs[p].cache, procs[p].ticker,
                                                   IF raised THEN "" ELSE code)]
    /\ UNCHANGED <<bbgRoot, now, ledger, files, tickers, last, hist, logVars, connVars, gen>>

\* _save_cache(cache) up to json.dump, calendars.py 52-56: open(CACHE_FILE,
\* 'w') empties the file; when it fails the exception is swallowed (58-59)
\* and the call returns its value with nothing persisted
ExchOpen(p, ok) ==
    /\ procs[p].pc = "save"
    /\ IF ok
       THEN /\ files' = SetCode(files, Str_CacheFile, NoCodes)
            /\ procs' = [procs EXCEPT ![p].pc = "dump"]
            /\ UNCHANGED last
       ELSE /\ procs' = [procs EXCEPT ![p] = IdleProc]
            /\ last' = [op |-> "get_bbg_exch_code", proc |-> p,
                        ticker |-> procs[p].ticker, ret |-> procs[p].val,
                        upstream |-> TRUE, known |-> procs[p].known,
                        persisted |-> IF procs[p].ticker \in DOMAIN hist
                                      THEN hist[procs[p].ticker] ELSE ""]
            /\ UNCHANGED files
    /\ UNCHANGED <<bbgRoot, now, ledger, tickers, hist, logVars, connVars, gen>>

\* json.dump(cache, f) and the return of the value, calendars.py 57, 91, 97:
\* the file now holds the mapping this process read plus its own ticker
ExchDump(p) ==
    /\ procs[p].pc = "dump"
    /\ files' = SetCode(files, Str_CacheFile, procs[p].cache)
    /\ hist' = SetCode(hist, procs[p].ticker, procs[p].val)
    /\ procs' = [procs EXCEPT ![p] = IdleProc]
    /\ last' = [op |-> "get_bbg_exch_code", proc |-> p,
                ticker |-> procs[p].ticker, ret |-> procs[p].val,
                upstream |-> TRUE, known |-> procs[p].known,
                persisted |-> IF procs[p].ticker \in DOMAIN hist
                              THEN hist[procs[p].ticker] ELSE ""]
    /\ UNCHANGED <<bbgRoot, now, ledger, tickers, logVars, connVars, gen>>

NextExch ==
    \/ \E p \in Procs, t \in ExchTickers : ExchCall(p, t)
    \/ \E p \in Procs, code \in ExchCodes, raised \in BOOLEAN : ExchLookup(p, code, raised)
    \/ \E p \in Procs, ok \in BOOLEAN : ExchOpen(p, ok)
    \/ \E p \in Procs : ExchDump(p)

SpecExch == InitExch /\ [][NextExch]_vars

\* C40: once get_bbg_exch_code has persisted a result for a ticker (a code,
\* or '' after a failed or empty lookup), every call for that ticker that
\* starts later returns the persisted value without an upstream lookup, and
\* while no process is in the middle of writing the file, the file holds the
\* value last persisted for every ticker, whichever process persisted it.
C40_LookupOncePerTicker ==
    /\ \A p \in Procs : procs[p].pc # "idle" => ~procs[p].known
    /\ (last.op = "get_bbg_exch_code" /\ last.known)
          => ~last.upstream /\ last.ret = last.persisted
    /\ (\A p \in Procs : procs[p].pc # "dump")
          => \A t \in DOMAIN hist :
                t \in DOMAIN LoadCache(files) /\ LoadCache(files)[t] = hist[t]

====
